---- MODULE Spec2Model ----
(***************************************************************************)
(* Model of the Sequencer of the Rigs of Rods relay server                 *)
(* (sequencer.cpp): the client table, admission (createClient), dispatch   *)
(* (queueMessage), disconnect, the kill queue and the killer thread, with  *)
(* the two mutexes clients_mutex and killer_mutex.                         *)
(*                                                                         *)
(* Threads are the listener (createClient, enableFlow), one receiver and   *)
(* one broadcaster per client, and the killer thread.  A handler is cut    *)
(* into steps at its lock operations and between its accesses to the       *)
(* shared containers; one call on a container (a scan, a push_back, an     *)
(* erase) is one step.  A read outside a container's range is undefined    *)
(* behaviour: the model records it in `fault` and stops there.             *)
(*                                                                         *)
(* Spec interleaves the steps of the threads, with chat lines and the !ban  *)
(* command; SpecRace interleaves admission, disconnect and the killer      *)
(* thread alone; SpecSeq runs one thread at a time.  In all of them a      *)
(* thread enters a handler once the running broadcasters have sent what    *)
(* was queued on them, so that the queues hold the frames of the handlers  *)
(* under way and not the history of the run.  connCount, connCrash and     *)
(* fuid are unsigned int in the program; the bounds keep them far below    *)
(* 2^32.                                                                   *)
(***************************************************************************)
EXTENDS Integers, Sequences, FiniteSets, TLC

\* ------------------------------------------------------------------ bounds
MaxClients == 2      \* Config::getMaxClients()
MaxUid == 3          \* the listener stops admitting once fuid has passed MaxUid
MaxRace == 2         \* the same, when the steps of the threads interleave
MaxChat == 1         \* chat frames are dispatched while the history is shorter
MaxStream == 21      \* the highest stream id a client registers
MaxLines == 2        \* the same as MaxChat, where the queues are not drained
MaxBytes == 2        \* data frames are dispatched while the byte counters are below
MaxSlots == 3        \* Config::getMaxClients() where three names are in the table

\* ------------------------------------------------------- program constants
UID_NOT_FOUND == 65535
NickLen == 20
NickCut == 18
FirstUid == 1
ChatMax == 500
StreamMax == 20
UidLen == 4
\* enum broadcastType, the answers of the script callback playerChat
BROADCAST_AUTO == -1
BROADCAST_ALL == 0
BROADCAST_NORMAL == 1
BROADCAST_AUTHED == 2
BROADCAST_BLOCK == 3

\* --------------------------------------------------------------- threads
NoThread == <<"none", 0>>
Listener == <<"L", 0>>
Receiver(u) == <<"R", u>>
Broadcaster(u) == <<"B", u>>
\* the thread of the notifier, which asks for the heartbeat document
Notifier == <<"N", 0>>

Uids == 1..MaxUid

\* ------------------------------------------------------------- C strings
Min(a, b) == IF a < b THEN a ELSE b

Rep(c, n) == [i \in 1..n |-> c]

\* strncpy(dst, src, n) read back with strnlen(dst, n)
strncpy(s, n) == SubSeq(s, 1, Min(Len(s), n))

Digit(d) == CASE d = 0 -> "0" [] d = 1 -> "1" [] d = 2 -> "2" [] d = 3 -> "3"
              [] d = 4 -> "4" [] d = 5 -> "5" [] d = 6 -> "6" [] d = 7 -> "7"
              [] d = 8 -> "8" [] d = 9 -> "9"

RECURSIVE Dec(_)
\* sprintf("%d", n) for n >= 0
Dec(n) == IF n < 10 THEN <<Digit(n)>> ELSE Dec(n \div 10) \o <<Digit(n % 10)>>

\* ----------------------------------------------------------------- inputs
\* user_credentials_t as the listener hands it over, with the peer address
\* of the socket and the answer of the auth resolver for the token.
\* username is the C string strcmp reads at user->username.
LongNick == Rep("b", NickLen)
Users ==
  { [username |-> <<"a">>, ip |-> 1, auth |-> {"MOD"}],
    [username |-> LongNick \o <<"x">>, ip |-> 2, auth |-> {}] }
\* the first of them alone
OneUser == { [username |-> <<"a">>, ip |-> 1, auth |-> {"MOD"}] }

\* ------------------------------------------------------------------ state
VARIABLES
  clients,        \* Sequencer::clients: the uids of the entries, in table order
  ent,            \* the client_t objects ever allocated, by uid
  outq,           \* per client, the frames queued on its broadcaster
  reply,          \* what the last createClient sent on the socket of the caller
  fuid,           \* Sequencer::fuid
  killqueue,      \* Sequencer::killqueue
  connCount,      \* Sequencer::connCount
  connCrash,      \* Sequencer::connCrash
  bans,           \* Sequencer::bans
  chathistory,    \* Sequencer::chathistory
  clients_mutex,  \* the thread that holds clients_mutex
  killer_mutex,   \* the thread that holds killer_mutex
  cc,             \* the listener inside createClient
  qm,             \* the receiver inside queueMessage
  dc,             \* the thread inside disconnect
  kt,             \* the killer thread
  fault,          \* undefined behaviour met, "none" before
  down,           \* Sequencer::cleanUp: how far it is, what it has sent
  userCache,      \* UserAuth::userCache: by username, the token and the level
  fields,         \* GlobalConfigManager::fields: by key, the default of the field
  config_data,    \* GlobalConfigManager::config_data: by key, the node of the file
  cli_overrides,  \* GlobalConfigManager::cli_overrides: by key, the parsed argument
  got,            \* the last call of GlobalConfigManager::get and its outcome
  hb              \* the notifier inside getHeartbeatData, and its document

vars == <<clients, ent, outq, reply, fuid, killqueue, connCount,
          connCrash, bans, chathistory, clients_mutex, killer_mutex, cc, qm, dc,
          kt, fault, down, userCache,
          fields, config_data, cli_overrides, got, hb>>

NoUser == [username |-> <<>>, ip |-> 0, auth |-> {}]
\* the default of the parameter isError of Sequencer::disconnect
isErrorDefault == FALSE
NoCall == [uid |-> 0, reason |-> "", isError |-> isErrorDefault]
NoData == [text |-> "", buid |-> 0]
\* instance->script is null, or the answer of script->playerChat
NoScript == [present |-> FALSE, ret |-> 0]
Script(ret) == [present |-> TRUE, ret |-> ret]
NoEntry == [st |-> "unused", nickname |-> <<>>, colournumber |-> 0,
            authstate |-> {}, flow |-> FALSE, initialized |-> FALSE,
            slotnum |-> 0, ip |-> 0, streams |-> {}, streams_traffic |-> <<>>,
            broadcaster |-> "none", receiver |-> "none", sock |-> "none"]
ccIdle == [pc |-> "idle", user |-> NoUser, dupeNick |-> FALSE,
           playerColour |-> 0, uid |-> 0, npos |-> 0, call |-> NoCall]
qmIdle == [pc |-> "idle", by |-> NoThread, uid |-> 0, type |-> "", data |-> NoData,
           streamid |-> 0, script |-> NoScript, len |-> 0,
           pos |-> 0, publishMode |-> 0, call |-> NoCall]
dcIdle == [pc |-> "idle", by |-> NoThread, uid |-> 0, reason |-> "",
           isError |-> FALSE, pos |-> 0]
ktIdle == [pc |-> "wait", to_del |-> 0]

\* peer is the address of the socket the answer went to
NoReply == [sent |-> "none", thrown |-> "none", peer |-> 0]

\* cleanUp has not run: the static flag is false, the notifier is there;
\* wire holds what cleanUp sends on the sockets, past the broadcasters
downIdle == [pc |-> "idle", cleanup |-> FALSE, notifier |-> "registered",
             wire |-> [u \in Uids |-> <<>>]]

Frame(type, source, data) == [type |-> type, source |-> source, data |-> data]

\* Sequencer::Sequencer and Sequencer::initilize
Init ==
  /\ clients = <<>>
  /\ ent = [u \in Uids |-> NoEntry]
  /\ outq = [u \in Uids |-> <<>>]
  /\ reply = NoReply
  /\ fuid = FirstUid
  /\ killqueue = <<>>
  /\ connCount = 0
  /\ connCrash = 0
  /\ bans = <<>>
  /\ chathistory = <<>>
  /\ clients_mutex = NoThread
  /\ killer_mutex = NoThread
  /\ cc = ccIdle
  /\ qm = qmIdle
  /\ dc = dcIdle
  /\ kt = ktIdle
  /\ fault = "none"
  /\ down = downIdle
  /\ userCache = <<>>
  /\ fields = <<>>
  /\ config_data = <<>>
  /\ cli_overrides = <<>>
  /\ got = [T |-> "", key |-> "", out |-> [throws |-> FALSE, val |-> ""]]
  /\ hb = [pc |-> "idle", clientnum |-> 0, i |-> 0, lines |-> <<>>]

\* ---------------------------------------------------------------- helpers
Range(s) == {s[i] : i \in 1..Len(s)}

\* Sequencer::checkNickUnique: TRUE when the nick is already in the table
checkNickUnique(nick) == \E i \in 1..Len(clients) : ent[clients[i]].nickname = nick

RECURSIVE recheck_col(_)
recheck_col(col) ==
  IF \E i \in 1..Len(clients) : ent[clients[i]].colournumber = col
  THEN recheck_col(col + 1)
  ELSE col

\* a colour taken from the size of the table instead of the scan
getFreePlayerColourBySize == Len(clients)

\* Sequencer::getFreePlayerColour
getFreePlayerColour == recheck_col(0)

\* a lookup that falls back on the first client of the table
getPosfromUidOrFirst(uid) ==
  IF \E i \in 1..Len(clients) : clients[i] = uid
  THEN (CHOOSE i \in 1..Len(clients) :
          clients[i] = uid /\ \A j \in 1..(i - 1) : clients[j] # uid) - 1
  ELSE IF clients = <<>> THEN UID_NOT_FOUND ELSE 0

\* Sequencer::getPosfromUid, as a position counted from 0
getPosfromUid(uid) ==
  IF \E i \in 1..Len(clients) : clients[i] = uid
  THEN (CHOOSE i \in 1..Len(clients) :
          clients[i] = uid /\ \A j \in 1..(i - 1) : clients[j] # uid) - 1
  ELSE UID_NOT_FOUND

\* instance->clients[pos] is inside the vector
InRange(pos) == pos < Len(clients)

\* Sequencer::isbanned
isbanned(ip) == \E i \in 1..Len(bans) : bans[i].ip = ip

RECURSIVE dedupLoop(_, _)
\* the while(dupeNick) loop of createClient: buf at its exit
dedupLoop(buf, dupecounter) ==
  LET next == SubSeq(buf, 1, Min(Len(buf), NickCut)) \o Dec(dupecounter)
  IN IF checkNickUnique(next) THEN dedupLoop(next, dupecounter + 1) ELSE next

\* the nickname createClient stores for user->username
chosenNick(username, dupeNick) ==
  IF dupeNick
  THEN LET buf == strncpy(username, NickLen)
           cut == IF Len(buf) = NickLen THEN SubSeq(buf, 1, NickCut) ELSE buf
       IN strncpy(dedupLoop(cut, 2), NickLen)
  ELSE strncpy(username, NickLen)

\* broadcaster->queueMessage on every client of the table
QueueOnAll(q, f) ==
  [u \in Uids |-> IF u \in Range(clients) THEN Append(q[u], f) ELSE q[u]]

\* the process runs: no undefined behaviour met, cleanUp not at its end
Ok == fault = "none" /\ down.pc # "exited"

\* ----------------------------------------------------------- createClient
\* createClient with the full check written > instead of >=
CreateClientBeginOffByOne(user, last) ==
  /\ Ok /\ cc.pc = "idle" /\ reply = NoReply
  /\ clients_mutex = NoThread
  /\ Len(clients) > MaxClients \/ fuid <= last
  /\ IF Len(clients) > MaxClients
     THEN /\ reply' = [sent |-> "FULL", thrown |-> "Server is full",
                       peer |-> user.ip]
          /\ UNCHANGED <<cc, clients_mutex>>
     ELSE /\ cc' = [cc EXCEPT !.pc = "add", !.user = user,
                              !.dupeNick = checkNickUnique(user.username),
                              !.playerColour = getFreePlayerColour]
          /\ clients_mutex' = Listener
          /\ reply' = NoReply
  /\ UNCHANGED <<clients, ent, outq, fuid, killqueue, connCount, connCrash,
                 bans, chathistory, killer_mutex, qm, dc, kt, fault>>
  /\ UNCHANGED <<down, userCache, fields, config_data, cli_overrides, got, hb>>

\* lines 216-231: lock, the two scans and the full check, on a server
\* configured for max clients
CreateClientBeginMax(user, last, max) ==
  /\ Ok /\ cc.pc = "idle" /\ reply = NoReply
  /\ clients_mutex = NoThread
  /\ Len(clients) >= max \/ fuid <= last
  /\ IF Len(clients) >= max
     THEN /\ reply' = [sent |-> "FULL", thrown |-> "Server is full",
                       peer |-> user.ip]
          /\ UNCHANGED <<cc, clients_mutex>>
     ELSE /\ cc' = [cc EXCEPT !.pc = "add", !.user = user,
                              !.dupeNick = checkNickUnique(user.username),
                              !.playerColour = getFreePlayerColour]
          /\ clients_mutex' = Listener
          /\ reply' = NoReply
  /\ UNCHANGED <<clients, ent, outq, fuid, killqueue, connCount, connCrash,
                 bans, chathistory, killer_mutex, qm, dc, kt, fault>>
  /\ UNCHANGED <<down, userCache, fields, config_data, cli_overrides, got, hb>>

\* the same on a server configured for MaxClients clients
CreateClientBegin(user, last) == CreateClientBeginMax(user, last, MaxClients)

\* the client_t of lines 254-305
newClient ==
  [NoEntry EXCEPT !.st = "live",
                  !.nickname = chosenNick(cc.user.username, cc.dupeNick),
                  !.colournumber = cc.playerColour,
                  !.authstate = cc.user.auth,
                  !.ip = cc.user.ip,
                  !.broadcaster = "running", !.receiver = "running",
                  !.sock = "open"]

\* createClient without the fuid++ of line 300
CreateClientAddSameUid ==
  /\ Ok /\ cc.pc = "add"
  /\ ent' = [ent EXCEPT ![fuid] = newClient]
  /\ clients' = Append(clients, fuid)
  /\ cc' = [cc EXCEPT !.pc = "pos", !.uid = fuid]
  /\ UNCHANGED <<outq, reply, fuid, killqueue, connCount, connCrash,
                 bans, chathistory, clients_mutex, killer_mutex, qm, dc, kt, fault>>
  /\ UNCHANGED <<down, userCache, fields, config_data, cli_overrides, got, hb>>

\* lines 233-305: the new nickname, the entry, its uid, push_back
CreateClientAdd ==
  /\ Ok /\ cc.pc = "add"
  /\ ent' = [ent EXCEPT ![fuid] = newClient]
  /\ clients' = Append(clients, fuid)
  /\ fuid' = fuid + 1
  /\ cc' = [cc EXCEPT !.pc = "pos", !.uid = fuid]
  /\ UNCHANGED <<outq, reply, killqueue, connCount, connCrash,
                 bans, chathistory, clients_mutex, killer_mutex, qm, dc, kt, fault>>
  /\ UNCHANGED <<down, userCache, fields, config_data, cli_overrides, got, hb>>

\* createClient going on to the notification whatever sendmessage returns
CreateClientPosUnchecked(sendFails) ==
  /\ Ok /\ cc.pc = "pos"
  /\ LET npos == getPosfromUid(cc.uid) IN
     IF ~InRange(npos)
     THEN /\ fault' = "createClient: clients[npos] out of range"
          /\ UNCHANGED <<ent, reply, cc>>
     ELSE /\ ent' = [ent EXCEPT ![clients[npos + 1]].slotnum = npos]
          /\ IF isbanned(cc.user.ip)
             THEN /\ reply' = [reply EXCEPT !.sent = "BANNED", !.peer = cc.user.ip]
                  /\ cc' = [cc EXCEPT !.pc = "call", !.npos = npos,
                                      !.call.reason = "you are banned"]
             ELSE IF sendFails
             THEN /\ cc' = [cc EXCEPT !.pc = "join", !.npos = npos]
                  /\ UNCHANGED reply
             ELSE /\ reply' = [reply EXCEPT !.sent = "WELCOME", !.peer = cc.user.ip]
                  /\ cc' = [cc EXCEPT !.pc = "join", !.npos = npos]
          /\ UNCHANGED fault
  /\ UNCHANGED <<clients, outq, fuid, killqueue, connCount, connCrash,
                 bans, chathistory, clients_mutex, killer_mutex, qm, dc, kt>>
  /\ UNCHANGED <<down, userCache, fields, config_data, cli_overrides, got, hb>>

\* lines 307-336: the slot, the ban check, BANNED or WELCOME on the socket
CreateClientPos(sendFails) ==
  /\ Ok /\ cc.pc = "pos"
  /\ LET npos == getPosfromUid(cc.uid) IN
     IF ~InRange(npos)
     THEN /\ fault' = "createClient: clients[npos] out of range"
          /\ UNCHANGED <<ent, reply, cc>>
     ELSE /\ ent' = [ent EXCEPT ![clients[npos + 1]].slotnum = npos]
          /\ IF isbanned(cc.user.ip)
             THEN /\ reply' = [reply EXCEPT !.sent = "BANNED", !.peer = cc.user.ip]
                  /\ cc' = [cc EXCEPT !.pc = "call", !.npos = npos,
                                      !.call.reason = "you are banned"]
             ELSE IF sendFails
             THEN /\ cc' = [cc EXCEPT !.pc = "call", !.npos = npos,
                              !.call.reason = "error sending welcome message"]
                  /\ UNCHANGED reply
             ELSE /\ reply' = [reply EXCEPT !.sent = "WELCOME", !.peer = cc.user.ip]
                  /\ cc' = [cc EXCEPT !.pc = "join", !.npos = npos]
          /\ UNCHANGED fault
  /\ UNCHANGED <<clients, outq, fuid, killqueue, connCount, connCrash,
                 bans, chathistory, clients_mutex, killer_mutex, qm, dc, kt>>
  /\ UNCHANGED <<down, userCache, fields, config_data, cli_overrides, got, hb>>

\* lines 327 and 334: the argument instance->clients[npos]->uid of disconnect
CreateClientCall ==
  /\ Ok /\ cc.pc = "call"
  /\ IF ~InRange(cc.npos)
     THEN /\ fault' = "createClient: clients[npos] out of range"
          /\ UNCHANGED cc
     ELSE /\ cc' = [cc EXCEPT !.pc = "disconnect", !.call.uid = clients[cc.npos + 1]]
          /\ UNCHANGED fault
  /\ UNCHANGED <<clients, ent, outq, reply, fuid, killqueue,
                 connCount, connCrash, bans, chathistory, clients_mutex,
                 killer_mutex, qm, dc, kt>>
  /\ UNCHANGED <<down, userCache, fields, config_data, cli_overrides, got, hb>>

\* client_info_on_join of lines 312-318
info_own(uid, npos) ==
  [slotid |-> npos, colournum |-> cc.playerColour,
   nickname |-> ent[uid].nickname, authstatus |-> ent[uid].authstate]

\* createClient with the loop of lines 339-342 leaving out the new client
CreateClientJoinOthersOnly ==
  /\ Ok /\ cc.pc = "join"
  /\ IF ~InRange(cc.npos)
     THEN /\ fault' = "createClient: clients[npos] out of range"
          /\ UNCHANGED <<outq, cc, clients_mutex>>
     ELSE /\ outq' = [u \in Uids |->
                       IF u \in Range(clients) /\ u # clients[cc.npos + 1]
                       THEN Append(outq[u], Frame("USER_JOIN", clients[cc.npos + 1],
                                                  info_own(cc.uid, cc.npos)))
                       ELSE outq[u]]
          /\ cc' = ccIdle
          /\ clients_mutex' = NoThread
          /\ UNCHANGED fault
  /\ UNCHANGED <<clients, ent, reply, fuid, killqueue, connCount,
                 connCrash, bans, chathistory, killer_mutex, qm, dc, kt>>
  /\ UNCHANGED <<down, userCache, fields, config_data, cli_overrides, got, hb>>

\* lines 338-346: USER_JOIN to everyone, then the lock is released
CreateClientJoin ==
  /\ Ok /\ cc.pc = "join"
  /\ IF ~InRange(cc.npos)
     THEN /\ fault' = "createClient: clients[npos] out of range"
          /\ UNCHANGED <<outq, cc, clients_mutex>>
     ELSE /\ outq' = QueueOnAll(outq, Frame("USER_JOIN", clients[cc.npos + 1],
                                            info_own(cc.uid, cc.npos)))
          /\ cc' = ccIdle
          /\ clients_mutex' = NoThread
          /\ UNCHANGED fault
  /\ UNCHANGED <<clients, ent, reply, fuid, killqueue, connCount,
                 connCrash, bans, chathistory, killer_mutex, qm, dc, kt>>
  /\ UNCHANGED <<down, userCache, fields, config_data, cli_overrides, got, hb>>

\* the listener has handled what createClient sent or threw and is back at
\* accept
ListenerAccept ==
  /\ Ok /\ cc.pc = "idle" /\ reply # NoReply
  /\ reply' = NoReply
  /\ UNCHANGED <<clients, ent, outq, fuid, killqueue, connCount, connCrash, bans,
                 chathistory, clients_mutex, killer_mutex, cc, qm, dc, kt, fault>>
  /\ UNCHANGED <<down, userCache, fields, config_data, cli_overrides, got, hb>>

\* ------------------------------------------------------------- disconnect
\* the thread t stands at a call of Sequencer::disconnect
CallsDisconnect(t) ==
  \/ t = Listener /\ cc.pc = "disconnect"
  \/ t = qm.by /\ qm.pc = "disconnect"

CallOf(t) == IF t = Listener THEN cc.call ELSE qm.call

\* the caller of disconnect goes on after the call has returned:
\* createClient returns (lines 328, 335), queueMessage goes on to line 1108
Return(t) ==
  IF t = Listener
  THEN /\ cc' = ccIdle
       /\ clients_mutex' = NoThread
       /\ UNCHANGED qm
  ELSE IF t = qm.by
  THEN /\ qm' = [qm EXCEPT !.pc = IF qm.type = "MSG2_CHAT" THEN "chatlog"
                                 ELSE "publish"]
       /\ UNCHANGED <<cc, clients_mutex>>
  ELSE UNCHANGED <<cc, qm, clients_mutex>>

\* disconnect taking clients_mutex as well, after killer_mutex, when the
\* caller does not hold it
DisconnectBeginBothLocks(t, call) ==
  /\ killer_mutex = NoThread
  /\ clients_mutex \in {NoThread, t}
  /\ LET pos == getPosfromUid(call.uid) IN
     IF pos = UID_NOT_FOUND
     THEN /\ Return(t)
          /\ UNCHANGED <<killqueue, killer_mutex, dc>>
     ELSE /\ killqueue' = Append(killqueue, clients[pos + 1])
          /\ killer_mutex' = t
          /\ clients_mutex' = t
          /\ dc' = [pc |-> "notify", by |-> t, uid |-> call.uid,
                    reason |-> call.reason, isError |-> call.isError, pos |-> pos]
          /\ IF t = Listener THEN cc' = [cc EXCEPT !.pc = "in disconnect"]
                             ELSE UNCHANGED cc
          /\ IF t = qm.by THEN qm' = [qm EXCEPT !.pc = "in disconnect"]
                          ELSE UNCHANGED qm
  /\ UNCHANGED <<clients, ent, outq, reply, fuid, connCount,
                 connCrash, bans, chathistory, kt, fault>>
  /\ UNCHANGED <<down, userCache, fields, config_data, cli_overrides, got, hb>>

\* lines 473-495: killer_mutex, the lookup, the push on the kill queue
DisconnectBegin(t, call) ==
  /\ killer_mutex = NoThread
  /\ LET pos == getPosfromUid(call.uid) IN
     IF pos = UID_NOT_FOUND
     THEN /\ Return(t)
          /\ UNCHANGED <<killqueue, killer_mutex, dc>>
     ELSE /\ killqueue' = Append(killqueue, clients[pos + 1])
          /\ killer_mutex' = t
          /\ dc' = [pc |-> "notify", by |-> t, uid |-> call.uid,
                    reason |-> call.reason, isError |-> call.isError, pos |-> pos]
          /\ IF t = Listener THEN cc' = [cc EXCEPT !.pc = "in disconnect"]
                             ELSE UNCHANGED cc
          /\ IF t = qm.by THEN qm' = [qm EXCEPT !.pc = "in disconnect"]
                          ELSE UNCHANGED qm
          /\ UNCHANGED clients_mutex
  /\ UNCHANGED <<clients, ent, outq, reply, fuid, connCount,
                 connCrash, bans, chathistory, kt, fault>>
  /\ UNCHANGED <<down, userCache, fields, config_data, cli_overrides, got, hb>>

\* disconnect called from createClient or from queueMessage
Disconnect(t) ==
  /\ Ok /\ CallsDisconnect(t)
  /\ DisconnectBegin(t, CallOf(t))

\* the thread of a client that is still running and in no handler
Runs(t, u) ==
  /\ \/ t = Receiver(u) /\ ent[u].receiver = "running"
     \/ t = Broadcaster(u) /\ ent[u].broadcaster = "running"
  /\ qm.by # t /\ dc.by # t

\* disconnect called by the broadcaster of the client (the callback handed
\* over at line 305) on a send error
BroadcasterDisconnect(u) ==
  /\ Ok /\ Runs(Broadcaster(u), u)
  /\ DisconnectBegin(Broadcaster(u),
                     [uid |-> u, reason |-> "send error", isError |-> TRUE])

\* disconnect called by the receiver of the client on a socket error
ReceiverDisconnect(u) ==
  /\ Ok /\ Runs(Receiver(u), u)
  /\ DisconnectBegin(Receiver(u),
                     [uid |-> u, reason |-> "socket error", isError |-> TRUE])

\* vector::erase at position pos, counted from 0
erase(tbl, pos) == SubSeq(tbl, 1, pos) \o SubSeq(tbl, pos + 2, Len(tbl))

\* disconnect with connCount++ moved under the else of if(isError)
DisconnectEndCountElse ==
  /\ Ok /\ dc.pc = "notify"
  /\ outq' = QueueOnAll(outq, Frame(IF dc.isError THEN "DELETE" ELSE "USER_LEAVE",
                                    clients[dc.pos + 1], dc.reason))
  /\ clients' = erase(clients, dc.pos)
  /\ connCount' = IF dc.isError THEN connCount ELSE connCount + 1
  /\ connCrash' = IF dc.isError THEN connCrash + 1 ELSE connCrash
  /\ killer_mutex' = NoThread
  /\ dc' = dcIdle
  /\ Return(dc.by)
  /\ UNCHANGED <<ent, reply, fuid, killqueue, bans, chathistory,
                 kt, fault>>
  /\ UNCHANGED <<down, userCache, fields, config_data, cli_overrides, got, hb>>

\* disconnect with the loop of lines 498-508 leaving out the client itself
DisconnectEndOthersOnly ==
  /\ Ok /\ dc.pc = "notify"
  /\ outq' = [u \in Uids |->
               IF u \in Range(clients) /\ u # clients[dc.pos + 1]
               THEN Append(outq[u], Frame(IF dc.isError THEN "DELETE" ELSE "USER_LEAVE",
                                          clients[dc.pos + 1], dc.reason))
               ELSE outq[u]]
  /\ clients' = erase(clients, dc.pos)
  /\ connCount' = connCount + 1
  /\ connCrash' = IF dc.isError THEN connCrash + 1 ELSE connCrash
  /\ killer_mutex' = NoThread
  /\ dc' = dcIdle
  /\ Return(dc.by)
  /\ UNCHANGED <<ent, reply, fuid, killqueue, bans, chathistory,
                 kt, fault>>
  /\ UNCHANGED <<down, userCache, fields, config_data, cli_overrides, got, hb>>

\* lines 497-520: the frames to everyone, the erase, the counters
DisconnectEnd ==
  /\ Ok /\ dc.pc = "notify"
  /\ outq' = QueueOnAll(outq, Frame(IF dc.isError THEN "DELETE" ELSE "USER_LEAVE",
                                    clients[dc.pos + 1], dc.reason))
  /\ clients' = erase(clients, dc.pos)
  /\ connCount' = connCount + 1
  /\ connCrash' = IF dc.isError THEN connCrash + 1 ELSE connCrash
  /\ killer_mutex' = NoThread
  /\ dc' = dcIdle
  /\ Return(dc.by)
  /\ UNCHANGED <<ent, reply, fuid, killqueue, bans, chathistory,
                 kt, fault>>
  /\ UNCHANGED <<down, userCache, fields, config_data, cli_overrides, got, hb>>

\* ---------------------------------------------------------- killer thread
\* the killer thread popping without killer_mutex
KillerPopNoLock ==
  /\ Ok /\ kt.pc = "wait"
  /\ killqueue # <<>>
  /\ kt' = [pc |-> "broadcaster->stop", to_del |-> Head(killqueue)]
  /\ killqueue' = Tail(killqueue)
  /\ UNCHANGED <<clients, ent, outq, reply, fuid, connCount,
                 connCrash, bans, chathistory, clients_mutex, killer_mutex, cc,
                 qm, dc, fault>>
  /\ UNCHANGED <<down, userCache, fields, config_data, cli_overrides, got, hb>>

\* lines 426-433: wait for an entry, pop it
KillerPop ==
  /\ Ok /\ kt.pc = "wait"
  /\ killer_mutex = NoThread
  /\ killqueue # <<>>
  /\ kt' = [pc |-> "broadcaster->stop", to_del |-> Head(killqueue)]
  /\ killqueue' = Tail(killqueue)
  /\ UNCHANGED <<clients, ent, outq, reply, fuid, connCount,
                 connCrash, bans, chathistory, clients_mutex, killer_mutex, cc,
                 qm, dc, fault>>
  /\ UNCHANGED <<down, userCache, fields, config_data, cli_overrides, got, hb>>

\* the teardown with the socket closed before the receiver is stopped
killerNextSockFirst(pc) ==
  CASE pc = "broadcaster->stop" -> "sock->disconnect"
    [] pc = "sock->disconnect" -> "receiver->stop"
    [] pc = "receiver->stop" -> "delete"
    [] pc = "delete" -> "wait"

\* lines 452-464: the statement that follows each statement of the teardown
killerNext(pc) ==
  CASE pc = "broadcaster->stop" -> "receiver->stop"
    [] pc = "receiver->stop" -> "sock->disconnect"
    [] pc = "sock->disconnect" -> "delete"
    [] pc = "delete" -> "wait"

\* the effect of one statement of the teardown on the entry
killerDo(pc, e) ==
  CASE pc = "broadcaster->stop" -> [e EXCEPT !.broadcaster = "stopped"]
    [] pc = "receiver->stop" -> [e EXCEPT !.receiver = "stopped"]
    [] pc = "sock->disconnect" -> [e EXCEPT !.sock = "closed"]
    [] pc = "delete" -> [NoEntry EXCEPT !.broadcaster = "deleted", !.receiver = "deleted",
                                  !.sock = "deleted", !.st = "freed"]

\* lines 452-464
KillerStep ==
  /\ Ok /\ kt.pc # "wait"
  /\ ent' = [ent EXCEPT ![kt.to_del] = killerDo(kt.pc, @)]
  /\ kt' = IF killerNext(kt.pc) = "wait" THEN ktIdle
           ELSE [kt EXCEPT !.pc = killerNext(kt.pc)]
  /\ outq' = IF kt.pc = "delete" THEN [outq EXCEPT ![kt.to_del] = <<>>] ELSE outq
  /\ UNCHANGED <<clients, reply, fuid, killqueue, connCount,
                 connCrash, bans, chathistory, clients_mutex, killer_mutex, cc,
                 qm, dc, fault>>
  /\ UNCHANGED <<down, userCache, fields, config_data, cli_overrides, got, hb>>

\* ---------------------------------------------------------------- cleanUp
\* line 130
ShutdownReason == "server shutting down (try to reconnect later!)"

\* lines 126-136: the static flag, then one MSG2_DELETE written on the
\* socket of every client of the table, with the uid of that client as source
CleanUpSend ==
  /\ Ok /\ down.pc = "idle" /\ ~down.cleanup
  /\ down' = [down EXCEPT
               !.pc = "delete notifier",
               !.cleanup = TRUE,
               !.wire = [u \in Uids |->
                          IF u \in Range(clients)
                          THEN Append(@[u], Frame("DELETE", u, ShutdownReason))
                          ELSE @[u]]]
  /\ UNCHANGED <<clients, ent, outq, reply, fuid, killqueue, connCount,
                 connCrash, bans, chathistory, clients_mutex, killer_mutex, cc,
                 qm, dc, kt, fault>>
  /\ UNCHANGED <<userCache, fields, config_data, cli_overrides, got, hb>>

\* lines 141-150: the notifier, the script engine and the auth resolver are
\* deleted
CleanUpNotifier ==
  /\ Ok /\ down.pc = "delete notifier"
  /\ down' = [down EXCEPT !.pc = "sleep", !.notifier = "deleted"]
  /\ UNCHANGED <<clients, ent, outq, reply, fuid, killqueue, connCount,
                 connCrash, bans, chathistory, clients_mutex, killer_mutex, cc,
                 qm, dc, kt, fault>>
  /\ UNCHANGED <<userCache, fields, config_data, cli_overrides, got, hb>>

\* lines 152-159: after the sleep the listener and the instance are deleted
CleanUpExit ==
  /\ Ok /\ down.pc = "sleep"
  /\ down' = [down EXCEPT !.pc = "exited"]
  /\ UNCHANGED <<clients, ent, outq, reply, fuid, killqueue, connCount,
                 connCrash, bans, chathistory, clients_mutex, killer_mutex, cc,
                 qm, dc, kt, fault>>
  /\ UNCHANGED <<userCache, fields, config_data, cli_overrides, got, hb>>

\* ------------------------------------------------------------- enableFlow
\* lines 523-535, called by the listener after createClient
EnableFlow(u) ==
  /\ Ok /\ cc.pc = "idle" /\ clients_mutex = NoThread
  /\ ent[u].st # "unused" /\ ~ent[u].flow
  /\ getPosfromUid(u) # UID_NOT_FOUND
  /\ ent' = [ent EXCEPT ![u].flow = TRUE]
  /\ UNCHANGED <<clients, outq, reply, fuid, killqueue, connCount,
                 connCrash, bans, chathistory, clients_mutex, killer_mutex, cc,
                 qm, dc, kt, fault>>
  /\ UNCHANGED <<down, userCache, fields, config_data, cli_overrides, got, hb>>

\* ----------------------------------------------------------- queueMessage
\* the chat lines a client sends: plain text, or the command !ban <uid> <msg>
ChatLines == {[text |-> "hi", buid |-> 0]} \cup
             {[text |-> "!ban", buid |-> u] : u \in Uids}

\* the frames a receiver hands to queueMessage
Msgs == {[type |-> "MSG2_DELETE", data |-> NoData]} \cup
        {[type |-> "MSG2_CHAT", data |-> d] : d \in ChatLines}

\* data[0] == '!'
IsCommand(data) == data.text \in {"!ban", "!kick", "!unban"}

\* Sequencer::serverSay to one uid: a chat frame from the server (source -1)
serverSay(q, msg, uid) ==
  [u \in Uids |-> IF u \in Range(clients) /\ ent[u].flow /\ u = uid
                  THEN Append(q[u], Frame("MSG2_CHAT", -1, msg)) ELSE q[u]]

\* lines 915-925: publishMode of a chat line
chatMode(data, script) ==
  LET publishMode == IF IsCommand(data) THEN 0 ELSE 3
  IN IF script.present /\ script.ret > 0 THEN script.ret ELSE publishMode

\* the statement of lines 928-1057 a chat line goes to
chatPc(data) ==
  CASE data.text = "!unban" -> "unban"
    [] data.text = "!ban" -> "ban"
    [] data.text = "!kick" -> "kickcmd"
    [] OTHER -> "chatlog"

\* len of a frame: its text, behind the target uid in a private chat line
FrameLen(type, data) ==
  Len(data.text) + IF type = "MSG2_PRIVCHAT" THEN UidLen ELSE 0

\* streams_traffic[streamid] of a std::map: a missing key reads as zeros
NoTraffic == [bandwidthIncoming |-> 0, bandwidthOutgoing |-> 0]
traffic(m, k) == IF k \in DOMAIN m THEN m[k] ELSE NoTraffic
put(m, k, v) == [x \in DOMAIN m \cup {k} |-> IF x = k THEN v ELSE m[x]]

\* client_info_on_join of lines 622-629, of a client of the table
info(o) ==
  [slotid |-> ent[o].slotnum, colournum |-> ent[o].colournumber,
   nickname |-> strncpy(ent[o].nickname, NickLen), authstatus |-> ent[o].authstate]

\* lines 610-615: the same of the client the burst is for
info_burst(me, pos) ==
  [slotid |-> pos, colournum |-> ent[me].colournumber,
   nickname |-> strncpy(ent[me].nickname, NickLen), authstatus |-> ent[me].authstate]

\* lines 640-644: the registrations of one client, in the order of the map
RECURSIVE streamFrames(_, _)
streamFrames(o, ids) ==
  IF ids = {} THEN <<>>
  ELSE LET k == CHOOSE x \in ids : \A y \in ids : x <= y
       IN <<Frame("MSG2_STREAM_REGISTER", o, [streamid |-> k])>>
          \o streamFrames(o, ids \ {k})

\* lines 617-646: the loop over the table from position i on
RECURSIVE notifyLoop(_, _, _)
notifyLoop(q, pos, i) ==
  IF i >= Len(clients) THEN q
  ELSE LET me == clients[pos + 1]
           o == clients[i + 1]
           q1 == [q EXCEPT ![me] = Append(@, Frame("USER_INFO", o, info(o)))]
           q2 == [q1 EXCEPT ![o] = Append(@, Frame("USER_INFO", me, info_burst(me, pos)))]
           q3 == [q2 EXCEPT ![me] = @ \o streamFrames(o, ent[o].streams)]
       IN notifyLoop(q3, pos, i + 1)

\* Sequencer::notifyAllVehicles(uid, false), lines 598-647
notifyAllVehicles(q, uid) ==
  LET pos == getPosfromUid(uid)
  IN IF pos = UID_NOT_FOUND THEN q ELSE notifyLoop(q, pos, 0)

\* the values the command MSG2_CHAT can have in the protocol header: a uid of
\* the model, or a number that is no uid of the model
CommandValues == Uids \cup {MaxUid + 1}

\* the command a receiving client reads in a header whose command field
\* holds n, when MSG2_CHAT has the value v
CommandOf(n, v) == IF n = v THEN "MSG2_CHAT" ELSE "no chat command"

\* lines 1059-1072: a private chat line; broadcaster->queueMessage is given
\* the uid of the sender where the other calls give the type, and MSG2_CHAT
\* where they give the uid
privchat(q, u, data, v) ==
  LET destpos == getPosfromUid(data.buid)
  IN IF destpos # UID_NOT_FOUND
     THEN [q EXCEPT ![clients[destpos + 1]] =
             Append(@, Frame(CommandOf(u, v), v, data.text))]
     ELSE q

\* the client stays as it was
setInitializedNever(e, uid) == e

\* line 819: instance->clients[pos]->initialized=true
setInitialized(e, uid) == [e EXCEPT ![uid].initialized = TRUE]

\* lines 804-924: the lock, the lookup of the sender, the frame by its type
QueueMessage(u, type, streamid, data, script) ==
  /\ Ok /\ qm.pc = "idle"
  /\ Runs(Receiver(u), u)
  /\ clients_mutex = NoThread
  /\ LET pos == getPosfromUid(u)
         frame == [qmIdle EXCEPT !.by = Receiver(u), !.uid = u, !.type = type,
                                 !.data = data, !.streamid = streamid,
                                 !.script = script, !.pos = pos,
                                 !.len = FrameLen(type, data)]
     IN
     IF pos = UID_NOT_FOUND
     THEN UNCHANGED <<qm, clients_mutex, ent, outq>>
     ELSE /\ clients_mutex' = Receiver(u)
          /\ qm' = CASE type = "MSG2_DELETE" ->
                          [frame EXCEPT !.pc = "disconnect",
                                        !.call = [uid |-> clients[pos + 1],
                                                  reason |-> "disconnected on request",
                                                  isError |-> FALSE]]
                     [] type = "MSG2_STREAM_REGISTER" ->
                          \* publishMode = 0 of line 829 is overwritten at line 849
                          [frame EXCEPT !.pc = "publish", !.publishMode = 1]
                     [] type \in {"MSG2_STREAM_DATA", "MSG2_VEHICLE_DATA"} ->
                          [frame EXCEPT !.pc = "publish", !.publishMode = 1]
                     [] type \in {"MSG2_USE_VEHICLE", "MSG2_PRIVCHAT"} ->
                          [frame EXCEPT !.pc = "publish", !.publishMode = 0]
                     [] type = "MSG2_CHAT" ->
                          [frame EXCEPT !.pc = chatPc(data),
                                        !.publishMode = chatMode(data, script)]
          \* line 836: streams[streamid] = *reg, lines 842-847: the counters
          \* of the stream are reset; line 819: initialized
          /\ ent' = CASE type = "MSG2_STREAM_REGISTER" ->
                          [ent EXCEPT ![clients[pos + 1]].streams = @ \cup {streamid},
                                      ![clients[pos + 1]].streams_traffic =
                                          put(@, streamid, NoTraffic)]
                      [] type = "MSG2_STREAM_DATA" ->
                          setInitialized(ent, clients[pos + 1])
                      [] OTHER -> ent
          \* lines 816-818: the burst before the first stream data frame
          /\ \E v \in IF type = "MSG2_PRIVCHAT" THEN CommandValues ELSE {0} :
               outq' = CASE type = "MSG2_STREAM_DATA" ->
                             IF ent[clients[pos + 1]].initialized THEN outq
                             ELSE notifyAllVehicles(outq, clients[pos + 1])
                         [] type = "MSG2_PRIVCHAT" -> privchat(outq, u, data, v)
                         [] OTHER -> outq
  /\ UNCHANGED <<clients, reply, fuid, killqueue, connCount,
                 connCrash, bans, chathistory, killer_mutex, cc, dc, kt, fault>>
  /\ UNCHANGED <<down, userCache, fields, config_data, cli_overrides, got, hb>>

\* the moderator check of lines 986-1006 and Sequencer::ban, lines 710-732
QueueMessageBan ==
  /\ Ok /\ qm.pc = "ban"
  /\ IF ~InRange(qm.pos)
     THEN /\ fault' = "queueMessage: clients[pos] out of range"
          /\ UNCHANGED <<bans, outq, qm>>
     ELSE /\ UNCHANGED fault
          /\ IF ent[clients[qm.pos + 1]].authstate \cap {"MOD", "ADMIN"} = {}
             THEN /\ outq' = serverSay(outq, "You are not authorized to ban people!",
                                       qm.uid)
                  /\ qm' = [qm EXCEPT !.pc = "chatlog"]
                  /\ UNCHANGED bans
             ELSE LET pos == getPosfromUid(qm.data.buid)
                      posMod == getPosfromUid(qm.uid)
                  IN IF pos = UID_NOT_FOUND \/ posMod = UID_NOT_FOUND
                     THEN /\ outq' = serverSay(outq,
                                 "kick + ban not successful: uid not found!", qm.uid)
                          /\ qm' = [qm EXCEPT !.pc = "chatlog"]
                          /\ UNCHANGED bans
                     ELSE /\ bans' = Append(bans,
                                 [uid |-> qm.data.buid,
                                  ip |-> ent[clients[pos + 1]].ip,
                                  nickname |-> ent[clients[pos + 1]].nickname,
                                  bannedby_nick |-> ent[clients[posMod + 1]].nickname])
                          /\ qm' = [qm EXCEPT !.pc = "kick"]
                          /\ UNCHANGED outq
  /\ UNCHANGED <<clients, ent, reply, fuid, killqueue, connCount, connCrash,
                 chathistory, clients_mutex, killer_mutex, cc, dc, kt>>
  /\ UNCHANGED <<down, userCache, fields, config_data, cli_overrides, got, hb>>

RECURSIVE Str(_)
\* the C string of a nickname
Str(s) == IF s = <<>> THEN "" ELSE s[1] \o Str(Tail(s))

\* the words behind the uid in a command line: those the line is given
\* with, "bye!" otherwise
lineMsg(data) == IF "msg" \in DOMAIN data THEN data.msg ELSE <<"bye!">>

RECURSIVE joined(_)
\* data + 6 behind the uid: the words of the line as the client typed them
joined(words) ==
  IF words = <<>> THEN ""
  ELSE IF Len(words) = 1 THEN words[1]
  ELSE words[1] \o " " \o joined(Tail(words))

\* lines 995 and 1020: sscanf(data+6, "%d %s", ...) stores one word
sscanf_s(words) == IF words = <<>> THEN "" ELSE words[1]

\* lines 733-738: the text Sequencer::ban hands to kick
banText(msg) == "banned" \o ": " \o msg

\* lines 697-704: the text Sequencer::kick hands to disconnect
kickmsg(nick, msg) == "kicked by " \o Str(nick) \o ": " \o msg

\* Sequencer::kick, lines 688-706, up to its call of disconnect
QueueMessageKick ==
  /\ Ok /\ qm.pc = "kick"
  /\ LET pos == getPosfromUid(qm.data.buid)
         posMod == getPosfromUid(qm.uid)
         word == sscanf_s(lineMsg(qm.data))
     IN IF pos = UID_NOT_FOUND \/ posMod = UID_NOT_FOUND
        THEN /\ outq' = serverSay(outq,
                          IF qm.data.text = "!ban"
                          THEN "kick + ban not successful: uid not found!"
                          ELSE "kick not successful: uid not found!", qm.uid)
             /\ qm' = [qm EXCEPT !.pc = "chatlog"]
        ELSE /\ qm' = [qm EXCEPT !.pc = "disconnect",
                                 !.call = [uid |-> clients[pos + 1],
                                           reason |->
                                             kickmsg(ent[clients[posMod + 1]].nickname,
                                                     IF qm.data.text = "!ban"
                                                     THEN banText(word) ELSE word),
                                           isError |-> isErrorDefault]]
             /\ UNCHANGED outq
  /\ UNCHANGED <<clients, ent, reply, fuid, killqueue, connCount, connCrash, bans,
                 chathistory, clients_mutex, killer_mutex, cc, dc, kt, fault>>
  /\ UNCHANGED <<down, userCache, fields, config_data, cli_overrides, got, hb>>

\* unban erasing the first ban whatever its uid
unbanPosFirst(buid) == IF bans # <<>> THEN 0 ELSE UID_NOT_FOUND

\* Sequencer::unban, lines 742-756: the position of the first ban of buid,
\* counted from 0, or UID_NOT_FOUND when the loop ends without one
unbanPos(buid) ==
  IF \E i \in 1..Len(bans) : bans[i].uid = buid
  THEN (CHOOSE i \in 1..Len(bans) :
          bans[i].uid = buid /\ \A j \in 1..(i - 1) : bans[j].uid # buid) - 1
  ELSE UID_NOT_FOUND

\* the moderator check of lines 966-988 and Sequencer::unban
QueueMessageUnban ==
  /\ Ok /\ qm.pc = "unban"
  /\ IF ~InRange(qm.pos)
     THEN /\ fault' = "queueMessage: clients[pos] out of range"
          /\ UNCHANGED <<bans, outq, qm>>
     ELSE /\ UNCHANGED fault
          /\ qm' = [qm EXCEPT !.pc = "chatlog"]
          /\ IF ent[clients[qm.pos + 1]].authstate \cap {"MOD", "ADMIN"} = {}
             THEN /\ outq' = serverSay(outq, "You are not authorized to unban people!",
                                       qm.uid)
                  /\ UNCHANGED bans
             ELSE LET i == unbanPos(qm.data.buid) IN
                  IF i # UID_NOT_FOUND
                  THEN /\ bans' = erase(bans, i)
                       /\ outq' = serverSay(outq, "ban not removed: error", qm.uid)
                  ELSE /\ outq' = serverSay(outq, "ban removed", qm.uid)
                       /\ UNCHANGED bans
  /\ UNCHANGED <<clients, ent, reply, fuid, killqueue, connCount, connCrash,
                 chathistory, clients_mutex, killer_mutex, cc, dc, kt>>
  /\ UNCHANGED <<down, userCache, fields, config_data, cli_overrides, got, hb>>

\* the moderator check of lines 1014-1038, up to the call of Sequencer::kick
QueueMessageKickCommand ==
  /\ Ok /\ qm.pc = "kickcmd"
  /\ IF ~InRange(qm.pos)
     THEN /\ fault' = "queueMessage: clients[pos] out of range"
          /\ UNCHANGED <<outq, qm>>
     ELSE /\ UNCHANGED fault
          /\ IF ent[clients[qm.pos + 1]].authstate \cap {"MOD", "ADMIN"} = {}
             THEN /\ outq' = serverSay(outq, "You are not authorized to kick people!",
                                       qm.uid)
                  /\ qm' = [qm EXCEPT !.pc = "chatlog"]
             ELSE /\ qm' = [qm EXCEPT !.pc = "kick"]
                  /\ UNCHANGED outq
  /\ UNCHANGED <<clients, ent, reply, fuid, killqueue, connCount, connCrash, bans,
                 chathistory, clients_mutex, killer_mutex, cc, dc, kt>>
  /\ UNCHANGED <<down, userCache, fields, config_data, cli_overrides, got, hb>>

\* lines 1040-1055: the chat line is added to the chat log
QueueMessageChatLog ==
  /\ Ok /\ qm.pc = "chatlog"
  /\ IF ~InRange(qm.pos)
     THEN /\ fault' = "queueMessage: clients[pos] out of range"
          /\ UNCHANGED <<chathistory, qm>>
     ELSE /\ chathistory' =
               Append(IF Len(chathistory) > ChatMax THEN Tail(chathistory)
                      ELSE chathistory,
                      [msg |-> qm.data, nick |-> ent[clients[qm.pos + 1]].nickname,
                       source |-> clients[qm.pos + 1]])
          /\ qm' = [qm EXCEPT !.pc = "publish"]
          /\ UNCHANGED fault
  /\ UNCHANGED <<clients, ent, outq, reply, fuid, killqueue, connCount, connCrash,
                 bans, clients_mutex, killer_mutex, cc, dc, kt>>
  /\ UNCHANGED <<down, userCache, fields, config_data, cli_overrides, got, hb>>

\* the fan-out without the test of flow
DestinationsAnyFlow(pos, publishMode) ==
  { clients[i + 1] : i \in { j \in 0..(Len(clients) - 1) :
       \/ publishMode = 3
       \/ publishMode = 1 /\ j # pos
       \/ publishMode = 2 /\ j # pos /\ "ADMIN" \in ent[clients[j + 1]].authstate } }

\* the clients of the table a frame is pushed to, lines 1113-1140
Destinations(pos, publishMode) ==
  { clients[i + 1] : i \in { j \in 0..(Len(clients) - 1) :
       /\ ent[clients[j + 1]].flow
       /\ \/ publishMode = 3
          \/ publishMode = 1 /\ j # pos
          \/ publishMode = 2 /\ j # pos /\ "ADMIN" \in ent[clients[j + 1]].authstate } }

\* line 1110: bandwidthIncoming of the sender
countIn(e, pos, streamid, len) ==
  [e EXCEPT ![clients[pos + 1]].streams_traffic =
     put(@, streamid, [traffic(@, streamid) EXCEPT !.bandwidthIncoming = @ + len])]

\* lines 1122, 1135: bandwidthOutgoing of every destination
countOut(e, dests, streamid, len) ==
  [u \in Uids |->
     IF u \in dests
     THEN [e[u] EXCEPT !.streams_traffic =
             put(@, streamid, [traffic(@, streamid) EXCEPT !.bandwidthOutgoing = @ + len])]
     ELSE e[u]]

\* the fan-out pushing the frame in front of what is queued
QueueMessagePublishAtHead ==
  /\ Ok /\ qm.pc = "publish"
  /\ IF qm.publishMode > 0
     THEN IF ~InRange(qm.pos)
          THEN /\ fault' = "queueMessage: clients[pos] out of range"
               /\ UNCHANGED <<outq, qm, clients_mutex, ent>>
          ELSE /\ outq' = [u \in Uids |->
                            IF u \in Destinations(qm.pos, qm.publishMode)
                            THEN <<Frame(qm.type, clients[qm.pos + 1], qm.data)>>
                                 \o outq[u]
                            ELSE outq[u]]
               /\ ent' = countOut(countIn(ent, qm.pos, qm.streamid, qm.len),
                                   Destinations(qm.pos, qm.publishMode),
                                   qm.streamid, qm.len)
               /\ qm' = qmIdle
               /\ clients_mutex' = NoThread
               /\ UNCHANGED fault
     ELSE /\ qm' = qmIdle
          /\ clients_mutex' = NoThread
          /\ UNCHANGED <<outq, fault, ent>>
  /\ UNCHANGED <<clients, reply, fuid, killqueue, connCount,
                 connCrash, bans, chathistory, killer_mutex, cc, dc, kt>>
  /\ UNCHANGED <<down, userCache, fields, config_data, cli_overrides, got, hb>>

\* lines 1108-1142: the fan-out, then the lock is released
QueueMessagePublish ==
  /\ Ok /\ qm.pc = "publish"
  /\ IF qm.publishMode > 0
     THEN IF ~InRange(qm.pos)
          THEN /\ fault' = "queueMessage: clients[pos] out of range"
               /\ UNCHANGED <<outq, qm, clients_mutex, ent>>
          ELSE /\ outq' = [u \in Uids |->
                            IF u \in Destinations(qm.pos, qm.publishMode)
                            THEN Append(outq[u],
                                        Frame(qm.type, clients[qm.pos + 1], qm.data))
                            ELSE outq[u]]
               /\ ent' = countOut(countIn(ent, qm.pos, qm.streamid, qm.len),
                                   Destinations(qm.pos, qm.publishMode),
                                   qm.streamid, qm.len)
               /\ qm' = qmIdle
               /\ clients_mutex' = NoThread
               /\ UNCHANGED fault
     ELSE /\ qm' = qmIdle
          /\ clients_mutex' = NoThread
          /\ UNCHANGED <<outq, fault, ent>>
  /\ UNCHANGED <<clients, reply, fuid, killqueue, connCount,
                 connCrash, bans, chathistory, killer_mutex, cc, dc, kt>>
  /\ UNCHANGED <<down, userCache, fields, config_data, cli_overrides, got, hb>>

\* ------------------------------------------------------------ broadcaster
\* the broadcaster of a client takes the frame at the head of its queue and
\* sends it on the socket
BroadcasterSend(u) ==
  /\ Ok /\ ent[u].broadcaster = "running"
  /\ outq[u] # <<>>
  /\ outq' = [outq EXCEPT ![u] = Tail(@)]
  /\ UNCHANGED <<clients, ent, reply, fuid, killqueue, connCount, connCrash,
                 bans, chathistory, clients_mutex, killer_mutex, cc, qm, dc, kt,
                 fault>>
  /\ UNCHANGED <<down, userCache, fields, config_data, cli_overrides, got, hb>>

\* every running broadcaster has sent what was queued on it
Drained == \A u \in Uids : ent[u].broadcaster = "running" => outq[u] = <<>>

\* ------------------------------------------------------------------- spec
\* a thread inside createClient, disconnect or the fan-out of queueMessage
\* takes its next step
StepCore ==
  \/ CreateClientAdd
  \/ \E sendFails \in BOOLEAN : CreateClientPos(sendFails)
  \/ CreateClientCall
  \/ CreateClientJoin
  \/ \E t \in {Listener} \cup {Receiver(u) : u \in Uids} : Disconnect(t)
  \/ DisconnectEnd
  \/ QueueMessagePublish

\* the same, and the steps of a chat line inside queueMessage
Step ==
  \/ StepCore
  \/ QueueMessageBan
  \/ QueueMessageKick
  \/ QueueMessageChatLog

\* the threads interleave step by step; a thread enters a handler once the
\* broadcasters have caught up, and the listener admits while fuid <= MaxRace
Next ==
  \/ \E user \in Users : Drained /\ CreateClientBegin(user, MaxRace)
  \/ \E u \in Uids : Drained /\ BroadcasterDisconnect(u)
  \/ \E u \in Uids : Drained /\ ReceiverDisconnect(u)
  \/ \E u \in Uids : Drained /\ EnableFlow(u)
  \/ \E u \in Uids, m \in Msgs :
       /\ Drained
       /\ m.type = "MSG2_CHAT" => Len(chathistory) < MaxChat
       /\ QueueMessage(u, m.type, 0, m.data, NoScript)
  \/ Step
  \/ ListenerAccept
  \/ KillerPop
  \/ KillerStep
  \/ \E u \in Uids : BroadcasterSend(u)

Spec == Init /\ [][Next]_vars

\* the threads interleave step by step as in Next, with one user name, and
\* with the send error of a broadcaster and the DELETE frame of a client as
\* the ways out
NextRace ==
  \/ \E user \in OneUser : Drained /\ CreateClientBegin(user, MaxRace)
  \/ \E u \in Uids : Drained /\ BroadcasterDisconnect(u)
  \/ \E u \in Uids : Drained /\ QueueMessage(u, "MSG2_DELETE", 0, NoData, NoScript)
  \/ StepCore
  \/ ListenerAccept
  \/ KillerPop
  \/ KillerStep
  \/ \E u \in Uids : BroadcasterSend(u)

SpecRace == Init /\ [][NextRace]_vars

\* SpecRace where the killer thread and a thread inside disconnect are
\* scheduled again and again: the killer thread waits on killer_cv in a loop
\* that tests the queue under killer_mutex, and disconnect signals it
SpecRaceFair ==
  SpecRace /\ WF_vars(KillerPop) /\ WF_vars(KillerStep) /\ WF_vars(DisconnectEnd)

\* the threads of SpecRace, and the thread that runs cleanUp at any moment
NextDown ==
  \/ \E user \in OneUser : Drained /\ CreateClientBegin(user, MaxRace)
  \/ \E u \in Uids : Drained /\ BroadcasterDisconnect(u)
  \/ \E u \in Uids : Drained /\ QueueMessage(u, "MSG2_DELETE", 0, NoData, NoScript)
  \/ StepCore
  \/ ListenerAccept
  \/ KillerPop
  \/ KillerStep
  \/ \E u \in Uids : BroadcasterSend(u)
  \/ CleanUpSend
  \/ CleanUpNotifier
  \/ CleanUpExit

SpecDown == Init /\ [][NextDown]_vars

\* no thread is inside createClient, disconnect or queueMessage
HandlersIdle == cc.pc = "idle" /\ qm.pc = "idle" /\ dc.pc = "idle"

\* the listener is back at accept and the killer thread has nothing to do
Settled ==
  /\ HandlersIdle /\ reply = NoReply
  /\ kt.pc = "wait" /\ killqueue = <<>>

\* one thread runs at a time: a handler to its end, then the listener back to
\* accept, then the killer thread until the kill queue is empty, then the
\* broadcasters in the order of their uids; the listener admits while
\* fuid <= MaxUid
NextSeq ==
  \/ \E user \in Users : Settled /\ Drained /\ CreateClientBegin(user, MaxUid)
  \/ \E u \in Uids : Settled /\ Drained /\ BroadcasterDisconnect(u)
  \/ \E u \in Uids : Settled /\ Drained /\ QueueMessage(u, "MSG2_DELETE", 0, NoData, NoScript)
  \/ StepCore
  \/ HandlersIdle /\ ListenerAccept
  \/ HandlersIdle /\ reply = NoReply /\ KillerPop
  \/ HandlersIdle /\ reply = NoReply /\ KillerStep
  \/ \E u \in Uids :
       /\ Settled
       /\ \A v \in 1..(u - 1) : ent[v].broadcaster = "running" => outq[v] = <<>>
       /\ BroadcasterSend(u)

SpecSeq == Init /\ [][NextSeq]_vars

\* the broadcasters send in the order of their uids
Turn(u) == \A v \in 1..(u - 1) : ent[v].broadcaster = "running" => outq[v] = <<>>

\* one client is admitted and sends the chat line "hi" again and again, one
\* thread running at a time
NextLog ==
  \/ \E user \in OneUser : Settled /\ CreateClientBegin(user, FirstUid)
  \/ CreateClientAdd
  \/ CreateClientPos(FALSE)
  \/ CreateClientJoin
  \/ HandlersIdle /\ ListenerAccept
  \/ \E u \in Uids : Settled /\ Drained /\ EnableFlow(u)
  \/ \E u \in Uids :
       /\ Settled /\ Drained
       /\ Len(chathistory) <= ChatMax
       /\ QueueMessage(u, "MSG2_CHAT", 0, [text |-> "hi", buid |-> 0], NoScript)
  \/ QueueMessageChatLog
  \/ QueueMessagePublish
  \/ \E u \in Uids : Settled /\ BroadcasterSend(u)

SpecLog == Init /\ [][NextLog]_vars

\* the stream ids a client registers: its first stream again, or its next one
StreamIds(u) == {1, Cardinality(ent[u].streams) + 1} \cap 1..MaxStream

\* two clients are admitted and register streams, one thread running at a
\* time
NextStream ==
  \/ \E user \in OneUser : Settled /\ Drained /\ CreateClientBegin(user, MaxClients)
  \/ CreateClientAdd
  \/ CreateClientPos(FALSE)
  \/ CreateClientJoin
  \/ HandlersIdle /\ ListenerAccept
  \/ \E u \in Uids : Settled /\ Drained /\ EnableFlow(u)
  \/ \E u \in Uids : \E streamid \in StreamIds(u) :
       /\ Settled /\ Drained
       /\ QueueMessage(u, "MSG2_STREAM_REGISTER", streamid, NoData, NoScript)
  \/ QueueMessagePublish
  \/ \E u \in Uids : Settled /\ Turn(u) /\ BroadcasterSend(u)

SpecStream == Init /\ [][NextStream]_vars

\* the answers of script->playerChat, and no script
Scripts == {NoScript} \cup
           {Script(ret) : ret \in {BROADCAST_AUTO, BROADCAST_ALL, BROADCAST_NORMAL,
                                   BROADCAST_AUTHED, BROADCAST_BLOCK}}

\* the chat lines a client sends where its lines are told apart
Words == {[text |-> t, buid |-> 0] : t \in {"hi", "yo"}}

\* the broadcasters have sent the frames of the admissions
OnlyChatQueued ==
  \A v \in Uids : \A k \in 1..Len(outq[v]) : outq[v][k].type = "MSG2_CHAT"

\* clients are admitted and send chat lines; the threads interleave step by
\* step, and the broadcasters send the chat frames when they come to it
NextFifo ==
  \/ \E user \in OneUser : Drained /\ CreateClientBegin(user, MaxRace)
  \/ CreateClientAdd
  \/ CreateClientPos(FALSE)
  \/ CreateClientJoin
  \/ ListenerAccept
  \/ \E u \in Uids : Drained /\ EnableFlow(u)
  \/ \E u \in Uids, data \in Words :
       /\ OnlyChatQueued
       /\ Len(chathistory) < MaxLines
       /\ QueueMessage(u, "MSG2_CHAT", 0, data, NoScript)
  \/ QueueMessageChatLog
  \/ QueueMessagePublish
  \/ \E u \in Uids : BroadcasterSend(u)

SpecFifo == Init /\ [][NextFifo]_vars

\* the commands that change the ban list
BanLines == {[text |-> t, buid |-> u] : t \in {"!ban", "!unban"}, u \in Uids}

\* clients are admitted, and banned and unbanned by the moderators among
\* them, one thread running at a time
NextBan ==
  \/ \E user \in Users : Settled /\ Drained /\ CreateClientBegin(user, MaxUid)
  \/ CreateClientAdd
  \/ CreateClientPos(FALSE)
  \/ CreateClientCall
  \/ CreateClientJoin
  \/ HandlersIdle /\ ListenerAccept
  \/ \E u \in Uids, data \in BanLines :
       /\ Settled /\ Drained
       /\ Len(chathistory) < MaxLines
       /\ ent[u].authstate # {}
       /\ QueueMessage(u, "MSG2_CHAT", 0, data, NoScript)
  \/ QueueMessageUnban
  \/ QueueMessageBan
  \/ QueueMessageKick
  \/ \E t \in {Listener} \cup {Receiver(u) : u \in Uids} : Disconnect(t)
  \/ DisconnectEnd
  \/ QueueMessageChatLog
  \/ QueueMessagePublish
  \/ HandlersIdle /\ reply = NoReply /\ KillerPop
  \/ HandlersIdle /\ reply = NoReply /\ KillerStep
  \/ \E u \in Uids : Settled /\ Turn(u) /\ BroadcasterSend(u)

SpecBan == Init /\ [][NextBan]_vars

\* a chat line and the commands on a uid
Lines == {[text |-> "hi", buid |-> 0]} \cup
         {[text |-> t, buid |-> u] : t \in {"!ban", "!kick", "!unban"}, u \in Uids}

\* clients are admitted and send chat lines and commands, with and without
\* a script, one thread running at a time
NextCmd ==
  \/ \E user \in Users : Settled /\ Drained /\ CreateClientBegin(user, MaxUid)
  \/ CreateClientAdd
  \/ CreateClientPos(FALSE)
  \/ CreateClientCall
  \/ CreateClientJoin
  \/ HandlersIdle /\ ListenerAccept
  \/ \E u \in Uids : Settled /\ Drained /\ EnableFlow(u)
  \/ \E u \in Uids, data \in Lines, script \in Scripts :
       /\ Settled /\ Drained
       /\ Len(chathistory) < MaxLines
       /\ QueueMessage(u, "MSG2_CHAT", 0, data, script)
  \/ QueueMessageUnban
  \/ QueueMessageBan
  \/ QueueMessageKickCommand
  \/ QueueMessageKick
  \/ \E t \in {Listener} \cup {Receiver(u) : u \in Uids} : Disconnect(t)
  \/ DisconnectEnd
  \/ QueueMessageChatLog
  \/ QueueMessagePublish
  \/ HandlersIdle /\ reply = NoReply /\ KillerPop
  \/ HandlersIdle /\ reply = NoReply /\ KillerStep
  \/ \E u \in Uids : Settled /\ Turn(u) /\ BroadcasterSend(u)

SpecCmd == Init /\ [][NextCmd]_vars

\* clients of one name are admitted on a server with MaxSlots slots and
\* leave on request, one thread running at a time
NextNick ==
  \/ \E user \in OneUser :
       Settled /\ Drained /\ CreateClientBeginMax(user, MaxUid, MaxSlots)
  \/ \E u \in Uids : Settled /\ Drained /\ QueueMessage(u, "MSG2_DELETE", 0, NoData, NoScript)
  \/ StepCore
  \/ HandlersIdle /\ ListenerAccept
  \/ HandlersIdle /\ reply = NoReply /\ KillerPop
  \/ HandlersIdle /\ reply = NoReply /\ KillerStep
  \/ \E u \in Uids : Settled /\ Turn(u) /\ BroadcasterSend(u)

SpecNick == Init /\ [][NextNick]_vars

\* an administrator and a plain user
DataUsers ==
  { [username |-> <<"a">>, ip |-> 1, auth |-> {"ADMIN"}],
    [username |-> <<"c">>, ip |-> 2, auth |-> {}] }

\* a chat line the script leaves alone (form 3), or sends to all but the
\* sender (form 1) or to the authed clients (form 2)
PolicyFrames ==
  {[type |-> "MSG2_CHAT", streamid |-> 0,
    data |-> [text |-> "hi", buid |-> 0], script |-> sc] :
    sc \in {NoScript, Script(BROADCAST_NORMAL), Script(BROADCAST_AUTHED)}}

\* what bounds the frames of a client: the chat log, the bytes counted
MayDispatch(u, f) ==
  /\ f.type = "MSG2_CHAT" => Len(chathistory) < MaxChat
  /\ f.type \in {"MSG2_STREAM_DATA", "MSG2_VEHICLE_DATA", "MSG2_STREAM_REGISTER"} =>
       \A v \in Uids :
         /\ traffic(ent[v].streams_traffic, f.streamid).bandwidthIncoming < MaxBytes
         /\ traffic(ent[v].streams_traffic, f.streamid).bandwidthOutgoing < MaxBytes

\* clients are admitted and send frames of the three broadcast forms, one
\* thread running at a time
NextPolicy ==
  \/ \E user \in DataUsers : Settled /\ Drained /\ CreateClientBegin(user, MaxClients)
  \/ CreateClientAdd
  \/ CreateClientPos(FALSE)
  \/ CreateClientJoin
  \/ HandlersIdle /\ ListenerAccept
  \/ \E u \in Uids : Settled /\ Drained /\ EnableFlow(u)
  \/ \E u \in Uids, f \in PolicyFrames :
       /\ Settled /\ Drained /\ MayDispatch(u, f)
       /\ QueueMessage(u, f.type, f.streamid, f.data, f.script)
  \/ QueueMessageChatLog
  \/ QueueMessagePublish
  \/ \E u \in Uids : Settled /\ Turn(u) /\ BroadcasterSend(u)

SpecPolicy == Init /\ [][NextPolicy]_vars

\* the frames a receiver hands over: stream and vehicle data, the deprecated
\* USE_VEHICLE, a registration, private chat to a uid, chat lines and a
\* command, with the answer of the script where the code asks it
DataFrames ==
  {[type |-> t, streamid |-> 1, data |-> [text |-> "d", buid |-> 0], script |-> NoScript] :
     t \in {"MSG2_STREAM_DATA", "MSG2_VEHICLE_DATA", "MSG2_USE_VEHICLE"}}
  \cup {[type |-> "MSG2_STREAM_REGISTER", streamid |-> 1,
         data |-> [text |-> "r", buid |-> 0], script |-> sc] :
         sc \in {NoScript, Script(BROADCAST_BLOCK)}}
  \cup {[type |-> "MSG2_PRIVCHAT", streamid |-> 0,
         data |-> [text |-> "psst", buid |-> t], script |-> NoScript] : t \in Uids}
  \cup {[type |-> "MSG2_CHAT", streamid |-> 0,
         data |-> [text |-> "hi", buid |-> 0], script |-> sc] :
         sc \in {NoScript, Script(BROADCAST_AUTHED), Script(BROADCAST_BLOCK)}}
  \cup {[type |-> "MSG2_CHAT", streamid |-> 0,
         data |-> [text |-> "!unban", buid |-> 1], script |-> NoScript]}

\* clients are admitted and send frames of every kind, one thread running
\* at a time
NextData ==
  \/ \E user \in DataUsers : Settled /\ Drained /\ CreateClientBegin(user, MaxClients)
  \/ CreateClientAdd
  \/ CreateClientPos(FALSE)
  \/ CreateClientJoin
  \/ HandlersIdle /\ ListenerAccept
  \/ \E u \in Uids : Settled /\ Drained /\ EnableFlow(u)
  \/ \E u \in Uids, f \in DataFrames :
       /\ Settled /\ Drained /\ MayDispatch(u, f)
       /\ QueueMessage(u, f.type, f.streamid, f.data, f.script)
  \/ QueueMessageUnban
  \/ QueueMessageChatLog
  \/ QueueMessagePublish
  \/ \E u \in Uids : Settled /\ Turn(u) /\ BroadcasterSend(u)

SpecData == Init /\ [][NextData]_vars

\* ------------------------------------------------------------- properties
\* C1: the nicknames of the clients in the client table are pairwise
\* distinct in every reachable state.
NicknamesDistinct ==
  \A i, j \in 1..Len(clients) :
    i # j => ent[clients[i]].nickname # ent[clients[j]].nickname

\* C2: the colour numbers of the clients in the table are pairwise distinct
\* in every reachable state; the scan of an admission yields the smallest
\* number >= 0 that no client of the table has, and the entry pushed on the
\* table carries that number.
ColoursDistinctAndLowest ==
  /\ [](\A i, j \in 1..Len(clients) :
          i # j => ent[clients[i]].colournumber # ent[clients[j]].colournumber)
  /\ [][cc.pc = "idle" /\ cc'.pc = "add" =>
          LET used == {ent[clients[i]].colournumber : i \in 1..Len(clients)}
          IN /\ cc'.playerColour >= 0
             /\ cc'.playerColour \notin used
             /\ \A c \in 0..(cc'.playerColour - 1) : c \in used]_vars
  /\ [][cc.pc = "add" /\ cc'.pc = "pos" =>
          /\ clients' = Append(clients, cc'.uid)
          /\ ent'[cc'.uid].colournumber = cc.playerColour]_vars

\* C2, its case: the client of colour 0 has left, the client of colour 1 has
\* stayed, and the next admission has taken colour 0 again.
ColourReused ==
  /\ Len(clients) = 2
  /\ ent[clients[1]].colournumber = 1
  /\ ent[clients[2]].colournumber = 0

\* C3: the uid of an admitted client is greater than 0 and greater than
\* every uid given before it, whether the earlier holder is still in the
\* table, has been disconnected or was rejected once its entry was made; fuid
\* never goes back.
UidsIncrease ==
  [][/\ fuid' >= fuid
     /\ Len(clients') > Len(clients) =>
          LET uid == clients'[Len(clients')]
          IN /\ uid > 0
             /\ clients' = Append(clients, uid)
             /\ fuid' > uid
             /\ \A v \in Uids : ent[v].st # "unused" => v < uid]_vars

\* C3, its case: a client is admitted after the holder of a smaller uid was
\* disconnected and freed.
UidAfterFreed ==
  /\ cc.pc = "pos"
  /\ \E v \in Uids : v < cc.uid /\ ent[v].st = "freed"

\* C4: the table never holds more than max_clients entries; createClient
\* goes on to admit only when the table is smaller than max_clients, and
\* when it is not, it sends FULL, throws "Server is full" and leaves the
\* table, fuid and every outgoing queue as they were.
FullIsRejected ==
  /\ [](Len(clients) <= MaxClients)
  /\ [][cc.pc = "idle" /\ cc'.pc # "idle" => Len(clients) < MaxClients]_vars
  /\ [][cc.pc = "idle" /\ reply = NoReply /\ reply' # NoReply =>
          /\ Len(clients) >= MaxClients
          /\ reply'.sent = "FULL" /\ reply'.thrown = "Server is full"
          /\ clients' = clients /\ ent' = ent /\ fuid' = fuid
          /\ outq' = outq /\ clients_mutex' = clients_mutex]_vars

\* C4, its case: the table is full and createClient has answered FULL.
FullAnswered ==
  /\ Len(clients) = MaxClients
  /\ reply.sent = "FULL" /\ reply.thrown = "Server is full"

\* C5: no entry that the killer thread has popped from the kill queue or has
\* freed is an element of the client table.
ReapedNotInTable ==
  \A u \in Uids :
    (ent[u].st = "freed" \/ (kt.pc # "wait" /\ kt.to_del = u))
      => u \notin Range(clients)

\* C5, its case: the killer thread is tearing an entry down while another
\* client is in the table.
ReapingBesideLive ==
  /\ kt.pc = "sock->disconnect"
  /\ clients # <<>>

\* C6: once disconnect has pushed an entry on the kill queue, no thread but
\* the one inside that disconnect queues a frame on the broadcaster of the
\* entry.
NoFrameAfterHandOver ==
  [][\A u \in Uids :
       ((u \in Range(killqueue) \/ (kt.pc # "wait" /\ kt.to_del = u))
        /\ Len(outq'[u]) > Len(outq[u]))
         => (dc.pc = "notify" /\ dc.uid = u /\ dc'.pc = "idle")]_vars

\* C7: a step that changes the client table, the ban list or the chat
\* history is taken by a thread that holds clients_mutex: the listener for
\* the push_back, the caller of disconnect for the erase, the receiver inside
\* queueMessage for the bans and the chat history.
MutationsHoldClientsMutex ==
  [][/\ Len(clients') > Len(clients) => clients_mutex = Listener
     /\ Len(clients') < Len(clients) => clients_mutex = dc.by
     /\ bans' # bans => (qm.by # NoThread /\ clients_mutex = qm.by)
     /\ chathistory' # chathistory =>
          (qm.by # NoThread /\ clients_mutex = qm.by)]_vars

\* C8 as stated: no step takes killer_mutex while the thread holds
\* clients_mutex.
KillerMutexFirst ==
  [][(killer_mutex' # killer_mutex /\ killer_mutex' # NoThread)
       => clients_mutex # killer_mutex']_vars

\* C8, amended: no step takes clients_mutex while the thread holds
\* killer_mutex; a thread that holds both took clients_mutex first.
ClientsMutexFirst ==
  [][/\ (clients_mutex' # clients_mutex /\ clients_mutex' # NoThread)
          => killer_mutex' # clients_mutex'
     /\ (killer_mutex' # killer_mutex /\ killer_mutex' # NoThread
         /\ clients_mutex' = killer_mutex')
          => clients_mutex = killer_mutex']_vars

\* C8, its case: one thread holds clients_mutex and killer_mutex.
BothMutexesHeld ==
  /\ clients_mutex # NoThread
  /\ killer_mutex = clients_mutex

\* C9: the killer thread stops the broadcaster, then stops the receiver,
\* then closes the socket, then releases them with the entry; no socket is
\* closed while its broadcaster or its receiver runs.
TeardownOrder ==
  /\ \A u \in Uids :
       /\ ent[u].sock = "closed" =>
            (ent[u].broadcaster = "stopped" /\ ent[u].receiver = "stopped")
       /\ ent[u].receiver = "stopped" => ent[u].broadcaster = "stopped"
       /\ ent[u].st = "freed" <=> ent[u].sock = "deleted"
       /\ ent[u].st = "freed" <=> ent[u].broadcaster = "deleted"
       /\ ent[u].st = "freed" <=> ent[u].receiver = "deleted"
  /\ kt.pc = "broadcaster->stop" =>
       (ent[kt.to_del].broadcaster = "running" /\ ent[kt.to_del].sock = "open")
  /\ kt.pc = "receiver->stop" =>
       (ent[kt.to_del].broadcaster = "stopped" /\ ent[kt.to_del].sock = "open")
  /\ kt.pc = "sock->disconnect" =>
       (ent[kt.to_del].receiver = "stopped" /\ ent[kt.to_del].sock = "open")
  /\ kt.pc = "delete" => ent[kt.to_del].sock = "closed"

\* C9, its case: the socket of the entry under teardown is closed and the
\* entry is not released yet.
SocketClosed ==
  /\ kt.pc = "delete"
  /\ ent[kt.to_del].sock = "closed"

\* C10: connCrash <= connCount in every reachable state; a disconnect that
\* has found its uid adds exactly 1 to connCount, and exactly 1 to connCrash
\* when isError is true and nothing when it is false; nothing else changes
\* the two counters.
CrashCounted ==
  /\ [](connCrash <= connCount)
  /\ [][IF dc.pc = "notify" /\ dc'.pc = "idle"
        THEN /\ connCount' = connCount + 1
             /\ connCrash' = connCrash + (IF dc.isError THEN 1 ELSE 0)
        ELSE connCount' = connCount /\ connCrash' = connCrash]_vars
  /\ [](connCount = Cardinality({u \in Uids :
                        ent[u].st # "unused" /\ u \notin Range(clients)}))

\* C10, its case: a client was disconnected on its request and another one
\* on an error.
CrashAndLeave ==
  /\ connCount = 2
  /\ connCrash = 1

\* C11: the chat history never holds more than 500 records, and a chat line
\* that is accepted goes to its end, the oldest record leaving when the
\* history is full.
ChatHistoryBounded ==
  /\ [](Len(chathistory) <= ChatMax)
  /\ [][chathistory' # chathistory =>
          /\ Len(chathistory') <= ChatMax
          /\ \E k \in {0, 1} :
               /\ k = 1 => Len(chathistory) = ChatMax
               /\ SubSeq(chathistory', 1, Len(chathistory') - 1)
                    = SubSeq(chathistory, k + 1, Len(chathistory))
               /\ chathistory'[Len(chathistory')].msg = qm.data]_vars

\* C12: the stream registry of a client never holds more than 20 streams,
\* and a STREAM_REGISTER frame of a client that has 20 streams is neither
\* stored nor broadcast, and the client stays in the table.
StreamsBounded ==
  /\ [](\A u \in Uids : Cardinality(ent[u].streams) <= StreamMax)
  /\ [][\A u \in Uids :
          (qm.pc = "idle" /\ qm'.type = "MSG2_STREAM_REGISTER" /\ qm'.uid = u
             /\ Cardinality(ent[u].streams) >= StreamMax)
          => ent'[u].streams = ent[u].streams /\ qm'.publishMode = 0]_vars

UnauthorizedCommandRefused ==
  [][(/\ qm.pc # "idle" /\ qm.type = "MSG2_CHAT" /\ IsCommand(qm.data)
      /\ ent[qm.uid].authstate \cap {"MOD", "ADMIN"} = {})
     => /\ clients' = clients
        /\ bans' = bans
        /\ \A D \in Uids :
             IF D = qm.uid /\ qm.pc \in {"ban", "unban", "kickcmd"}
             THEN /\ Len(outq'[D]) = Len(outq[D]) + 1
                  /\ outq'[D][Len(outq'[D])].type = "MSG2_CHAT"
                  /\ outq'[D][Len(outq'[D])].source = -1
             ELSE outq'[D] = outq[D]]_vars

\* C17: when the script answers a chat frame with a decision other than
\* AUTO, the fan-out queues the frame on the clients of that decision and on
\* no other: BLOCK none, ALL the flowing clients, NORMAL the flowing clients
\* but the sender, AUTHED the flowing ADMIN clients but the sender; with AUTO
\* the frame goes where it goes without a script.
ScriptDecides ==
  [][(qm.pc = "publish" /\ qm'.pc = "idle" /\ qm.type = "MSG2_CHAT" /\ qm.script.present)
     => LET flowing == {u \in Range(clients) : ent[u].flow}
            ret == IF qm.script.ret = BROADCAST_AUTO
                   THEN IF IsCommand(qm.data) THEN BROADCAST_BLOCK ELSE BROADCAST_ALL
                   ELSE qm.script.ret
            to == CASE ret = BROADCAST_BLOCK -> {}
                    [] ret = BROADCAST_ALL -> flowing
                    [] ret = BROADCAST_NORMAL -> flowing \ {qm.uid}
                    [] ret = BROADCAST_AUTHED ->
                         {u \in flowing : "ADMIN" \in ent[u].authstate} \ {qm.uid}
        IN \A D \in Uids :
             outq'[D] = IF D \in to
                        THEN Append(outq[D], Frame("MSG2_CHAT", qm.uid, qm.data))
                        ELSE outq[D]]_vars

\* C18: while queueMessage handles a chat line that begins with '!', every
\* chat frame queued on a client is a frame of the server (source -1) queued
\* on the sender of the line.
CommandsNotBroadcast ==
  [][(qm.pc # "idle" /\ qm.type = "MSG2_CHAT" /\ IsCommand(qm.data))
     => \A D \in Uids : \A k \in (Len(outq[D]) + 1)..Len(outq'[D]) :
          outq'[D][k].type = "MSG2_CHAT" => outq'[D][k].source = -1 /\ D = qm.uid]_vars

\* C15: while createClient runs for a peer whose address is banned, no
\* entry is added to the table and no frame is queued on any client, and
\* createClient ends with BANNED sent.
BannedBeforeAdd ==
  [][(cc.pc # "idle" /\ \E i \in 1..Len(bans) : bans[i].ip = cc.user.ip)
     => /\ clients' = clients
        /\ outq' = outq
        /\ cc'.pc = "idle" => reply'.sent = "BANNED"]_vars

\* C16 as stated: a ban stays in the list until a step of unban for its uid,
\* and createClient answers a peer whose address is banned with BANNED.
BanHoldsUntilUnban ==
  /\ [][\A i \in 1..Len(bans) :
          \/ \E j \in 1..Len(bans') : bans'[j] = bans[i]
          \/ qm.pc = "unban" /\ qm.data.buid = bans[i].uid]_vars
  /\ [][(/\ reply'.sent # "none" /\ reply' # reply
         /\ \E i \in 1..Len(bans) : bans[i].ip = reply'.peer)
        => reply'.sent = "BANNED"]_vars

\* C16: a ban stays in the list until a step of unban for its uid, and
\* createClient answers a peer whose address is banned with BANNED, or with
\* FULL when the table is full, and never with WELCOME.
BanHoldsUntilUnbanOrFull ==
  /\ [][\A i \in 1..Len(bans) :
          \/ \E j \in 1..Len(bans') : bans'[j] = bans[i]
          \/ qm.pc = "unban" /\ qm.data.buid = bans[i].uid]_vars
  /\ [][(/\ reply'.sent # "none" /\ reply' # reply
         /\ \E i \in 1..Len(bans) : bans[i].ip = reply'.peer)
        => \/ reply'.sent = "BANNED"
           \/ reply'.sent = "FULL" /\ Len(clients) >= MaxClients]_vars

\* C16 witness: a peer whose address is banned has been answered BANNED
\* after an unban of another uid
BannedTurnedAway ==
  /\ reply.sent = "BANNED"
  /\ \E i \in 1..Len(bans) : bans[i].ip = reply.peer
  /\ \E k \in 1..Len(chathistory) :
       chathistory[k].msg.text = "!unban"
         /\ \A i \in 1..Len(bans) : bans[i].uid # chathistory[k].msg.buid

\* C19: the step of disconnect that notifies queues, on every client of the
\* table as it is then (the leaving client among them) and on no other, one
\* frame with the uid and the reason of the call, DELETE when isError and
\* USER_LEAVE when not; a disconnect that a DELETE frame of the client
\* started is for that client and not an error.
LeaveFrames ==
  /\ []((dc.pc = "notify" /\ dc.by = qm.by /\ qm.type = "MSG2_DELETE")
          => ~dc.isError /\ dc.uid = qm.uid)
  /\ [][(dc.pc = "notify" /\ dc'.pc = "idle")
        => \A D \in Uids :
             outq'[D] = IF D \in Range(clients)
                        THEN Append(outq[D],
                                    Frame(IF dc.isError THEN "DELETE" ELSE "USER_LEAVE",
                                          dc.uid, dc.reason))
                        ELSE outq[D]]_vars

\* C19 witness: a client has left by a send error while another one was in
\* the table, and both have the DELETE frame queued
CrashAnnounced ==
  \E u \in Uids, D \in Uids :
    /\ u # D /\ D \in Range(clients) /\ u \notin Range(clients)
    /\ outq[D] # <<>> /\ outq[D][Len(outq[D])] = Frame("DELETE", u, "send error")
    /\ outq[u] # <<>> /\ outq[u][Len(outq[u])] = Frame("DELETE", u, "send error")

\* C20 as stated: when a client B has been admitted (WELCOME sent, its
\* broadcaster has sent nothing yet), B has a USER_JOIN frame queued for
\* every client A of the table, and every such A one for B.
JoinedBothWays ==
  (cc.pc = "idle" /\ reply.sent = "WELCOME" /\ Len(clients) >= 2)
  => LET B == clients[Len(clients)] IN
     \A A \in Range(clients) :
       /\ \E k \in 1..Len(outq[A]) :
            outq[A][k].type = "USER_JOIN" /\ outq[A][k].source = B
       /\ \E k \in 1..Len(outq[B]) :
            outq[B][k].type = "USER_JOIN" /\ outq[B][k].source = A

\* C20: when a client B has been admitted (WELCOME sent, its broadcaster has
\* sent nothing yet), every client of the table, B among them, has one
\* USER_JOIN frame queued, the one for B with the nickname and the colour of
\* B; B has none for a client admitted before it.
JoinedByNewcomer ==
  (cc.pc = "idle" /\ reply.sent = "WELCOME" /\ clients # <<>>)
  => LET B == clients[Len(clients)] IN
     \A A \in Range(clients) :
       LET joins == SelectSeq(outq[A], LAMBDA f : f.type = "USER_JOIN")
       IN /\ Len(joins) = 1
          /\ joins[1].source = B
          /\ joins[1].data.nickname = ent[B].nickname
          /\ joins[1].data.colournum = ent[B].colournumber

\* C20 witness: a second client has been admitted beside the first
SecondJoined ==
  /\ cc.pc = "idle" /\ reply.sent = "WELCOME" /\ Len(clients) = 2
  /\ ent[clients[1]].flow = FALSE
  /\ Len(outq[clients[1]]) = 1 /\ Len(outq[clients[2]]) = 1

ShutdownTearsDown ==
  /\ [][(down.pc = "idle" /\ down'.pc # "idle")
        => \A u \in Uids :
             down'.wire[u] = IF u \in Range(clients)
                             THEN <<Frame("DELETE", u, ShutdownReason)>>
                             ELSE <<>>]_vars
  /\ [](down.notifier = "deleted" => down.cleanup)
  /\ [](down.pc = "exited"
          => \A u \in Uids : down.wire[u] # <<>> => u \notin Range(clients))

BytesInAlways ==
  [][(qm.pc = "publish" /\ qm'.pc = "idle" /\ qm.uid \in Range(clients))
     => traffic(ent'[qm.uid].streams_traffic, qm.streamid).bandwidthIncoming
          = traffic(ent[qm.uid].streams_traffic, qm.streamid).bandwidthIncoming
            + qm.len]_vars

\* C25: when the name asked for is the nickname of a client of the table,
\* the nickname stored is the name, cut to 18 characters, followed by the
\* decimal number k, where k is the smallest number from 2 on for which the
\* name followed by k is no nickname of the table.
NickIsBasePlusCounter ==
  [][(cc.pc = "add" /\ cc'.pc = "pos" /\ cc.dupeNick)
     => LET base == strncpy(cc.user.username, NickCut)
            live == { ent[clients[i]].nickname : i \in 1..Len(clients) }
            free == { k \in 2..(MaxSlots + 2) : base \o Dec(k) \notin live }
            k == CHOOSE k \in free : \A j \in free : k <= j
        IN ent'[cc'.uid].nickname = base \o Dec(k)]_vars

\* C26: the !unban <uid> of a moderator or administrator removes the ban
\* record of that uid and no other; a sender with flow set is told
\* "ban removed" when a record was removed and "ban not removed: error"
\* when no record had that uid.
UnbanReportsOutcome ==
  [][(qm.pc = "unban" /\ qm'.pc # "unban" /\ qm.uid \in Range(clients)
        /\ ent[qm.uid].authstate \cap {"MOD", "ADMIN"} # {})
     => LET hits == { i \in 1..Len(bans) : bans[i].uid = qm.data.buid }
            said(msg) == outq'[qm.uid] = Append(outq[qm.uid], Frame("MSG2_CHAT", -1, msg))
        IN IF hits # {}
           THEN /\ Len(bans') = Len(bans) - 1
                /\ \A i \in 1..Len(bans') : bans'[i].uid # qm.data.buid
                /\ ent[qm.uid].flow => said("ban removed")
           ELSE /\ bans' = bans
                /\ ent[qm.uid].flow => said("ban not removed: error")]_vars

\* C27: when a script is present, its answer to a stream registration
\* decides the fan-out of the frame: with the answer BLOCK the step that
\* ends the dispatch queues the frame on no client.
StreamAddedDecides ==
  [][(qm.pc = "publish" /\ qm'.pc = "idle" /\ qm.type = "MSG2_STREAM_REGISTER"
        /\ qm.script.present /\ qm.script.ret = BROADCAST_BLOCK)
     => outq' = outq]_vars

\* --------------------------------------------------------------- UserAuth
\* the lines an auth file may hold
MaxAuthLines == 2
AuthNames == {"a", "b"}
AuthTokens == {"t"}
\* the levels asked for, as sets of the flags of RoRnet
AuthLevels == { {"ADMIN", "BANNED"}, {"MOD", "RANKED"}, {"BOT"} }
\* a line of the file: a comment, or <authLevel> <token> <username>
AuthLineSet ==
  { [comment |-> TRUE, authLevel |-> {}, token |-> "", username |-> ""] }
    \cup { [comment |-> FALSE, authLevel |-> l, token |-> t, username |-> n] :
             l \in AuthLevels, t \in AuthTokens, n \in AuthNames }
AuthFiles == UNION { [1..k -> AuthLineSet] : k \in 0..MaxAuthLines }

\* the flags addUser clears
NotSettable == {"RANKED", "BANNED"}

\* UserAuth::addUser with the level stored as it is given
addUserAsGiven(cache, username, token, authLevel) ==
  put(cache, username, [token |-> token, authLevel |-> authLevel])

\* UserAuth::addUser past its check of the arguments
addUser(cache, username, token, authLevel) ==
  put(cache, username, [token |-> token, authLevel |-> authLevel \ NotSettable])

RECURSIVE loadLines(_, _, _)
\* the loop of UserAuth::loadConfig from line i of the file on
loadLines(cache, file, i) ==
  IF i > Len(file) THEN cache
  ELSE loadLines(IF file[i].comment THEN cache
                 ELSE addUser(cache, file[i].username, file[i].token,
                              file[i].authLevel),
                 file, i + 1)

\* UserAuth::removeUser
removeUser(cache, username) == [n \in DOMAIN cache \ {username} |-> cache[n]]

\* UserAuth::resolveUser
resolveUser(cache, username, token) ==
  IF username \in DOMAIN cache /\ cache[username].token = token
  THEN cache[username].authLevel
  ELSE {}

\* the answers UserAuth::getUserModeByUserToken may give for a token: the
\* level of a user stored with it, AUTH_NONE when there is none
getUserModeByUserToken(cache, token) ==
  LET known == { n \in DOMAIN cache : cache[n].token = token }
  IN IF known = {} THEN { {} } ELSE { cache[n].authLevel : n \in known }

AddUser(username, token, authLevel) ==
  /\ username # "" /\ token # ""
  /\ userCache' = addUser(userCache, username, token, authLevel)
  /\ UNCHANGED <<clients, ent, outq, reply, fuid, killqueue, connCount,
                 connCrash, bans, chathistory, clients_mutex, killer_mutex, cc,
                 qm, dc, kt, fault, down,
                 fields, config_data, cli_overrides, got, hb>>

LoadConfig(file) ==
  /\ userCache' = loadLines(userCache, file, 1)
  /\ UNCHANGED <<clients, ent, outq, reply, fuid, killqueue, connCount,
                 connCrash, bans, chathistory, clients_mutex, killer_mutex, cc,
                 qm, dc, kt, fault, down,
                 fields, config_data, cli_overrides, got, hb>>

RemoveUser(username) ==
  /\ userCache' = removeUser(userCache, username)
  /\ UNCHANGED <<clients, ent, outq, reply, fuid, killqueue, connCount,
                 connCrash, bans, chathistory, clients_mutex, killer_mutex, cc,
                 qm, dc, kt, fault, down,
                 fields, config_data, cli_overrides, got, hb>>

\* the user_credentials_t of a client that presents the token, with an
\* answer of the auth resolver for it
AuthUsers(token) ==
  { [username |-> <<"a">>, ip |-> 1, auth |-> l] :
      l \in getUserModeByUserToken(userCache, token) }

\* the auth file is loaded and edited while clients are admitted with the
\* token of the file or with another one, one thread running at a time
NextAuth ==
  \/ \E n \in AuthNames, t \in AuthTokens, l \in AuthLevels :
       Settled /\ Drained /\ AddUser(n, t, l)
  \/ \E file \in AuthFiles : Settled /\ Drained /\ LoadConfig(file)
  \/ \E n \in AuthNames : Settled /\ Drained /\ RemoveUser(n)
  \/ \E t \in AuthTokens \cup {"x"} : \E user \in AuthUsers(t) :
       Settled /\ Drained /\ CreateClientBegin(user, MaxUid)
  \/ CreateClientAdd
  \/ CreateClientPos(FALSE)
  \/ CreateClientJoin
  \/ HandlersIdle /\ ListenerAccept
  \/ \E u \in Uids : Settled /\ Turn(u) /\ BroadcasterSend(u)

SpecAuth == Init /\ [][NextAuth]_vars

BurstFrames ==
  { [type |-> "MSG2_STREAM_DATA", streamid |-> 1,
     data |-> [text |-> "d", buid |-> 0], script |-> NoScript] }

\* clients are admitted, have their flow enabled and send stream data, one
\* thread running at a time
NextBurst ==
  \/ \E user \in DataUsers : Settled /\ Drained /\ CreateClientBegin(user, MaxClients)
  \/ CreateClientAdd
  \/ CreateClientPos(FALSE)
  \/ CreateClientJoin
  \/ HandlersIdle /\ ListenerAccept
  \/ \E u \in Uids : Settled /\ Drained /\ EnableFlow(u)
  \/ \E u \in Uids, f \in BurstFrames :
       /\ Settled /\ Drained /\ MayDispatch(u, f)
       /\ QueueMessage(u, f.type, f.streamid, f.data, f.script)
  \/ QueueMessagePublish
  \/ \E u \in Uids : Settled /\ Turn(u) /\ BroadcasterSend(u)

SpecBurst == Init /\ [][NextBurst]_vars

PrivchatToTargetOnly ==
  [][/\ (qm.pc = "idle" /\ qm'.pc = "publish" /\ qm'.type = "MSG2_PRIVCHAT")
          => LET S == qm'.uid
                 T == qm'.data.buid
             IN IF T \in Range(clients)
                THEN outq' = [outq EXCEPT ![T] =
                                Append(@, Frame("MSG2_CHAT", S, qm'.data.text))]
                ELSE outq' = outq
     /\ (qm.pc = "publish" /\ qm.type = "MSG2_PRIVCHAT" /\ qm'.pc = "idle")
          => outq' = outq]_vars

\* ------------------------------------------------------------ late frames
\* the frames a receiver may still hand over after its client has left
LateFrames ==
  { [type |-> "MSG2_STREAM_REGISTER", streamid |-> 1,
     data |-> [text |-> "r", buid |-> 0], script |-> NoScript] }

\* one handler runs at a time, a client leaves by the send error of its
\* broadcaster, and the killer thread runs beside the handlers: the receiver
\* of a client that has left hands over frames until the killer thread has
\* stopped it
NextLate ==
  \/ \E user \in OneUser :
       HandlersIdle /\ reply = NoReply /\ Drained /\ CreateClientBegin(user, MaxRace)
  \/ \E u \in Uids :
       HandlersIdle /\ reply = NoReply /\ Drained /\ BroadcasterDisconnect(u)
  \/ \E u \in Uids, f \in LateFrames :
       /\ HandlersIdle /\ reply = NoReply /\ Drained /\ MayDispatch(u, f)
       /\ QueueMessage(u, f.type, f.streamid, f.data, f.script)
  \/ StepCore
  \/ HandlersIdle /\ ListenerAccept
  \/ KillerPop
  \/ KillerStep
  \/ \E u \in Uids : Turn(u) /\ BroadcasterSend(u)

SpecLate == Init /\ [][NextLate]_vars

\* C31: a frame handed over with a source uid that is not in the client
\* table has no effect: the table, the entries with their stream registries
\* and traffic counters, the chat history, the ban list, the kill queue and
\* every outgoing queue are after the dispatch what they were before.
LateFrameDropped ==
  [][\A u \in Uids :
       (u \notin Range(clients) /\ qm.pc = "idle")
         => \A f \in LateFrames \cup DataFrames :
              QueueMessage(u, f.type, f.streamid, f.data, f.script)
                => UNCHANGED <<clients, ent, chathistory, bans, killqueue, outq,
                               qm, clients_mutex>>]_vars

\* the receiver of a client that has left the table still runs and may hand
\* over a frame, while another client is in the table
LateReceiver ==
  \E u \in Uids :
    /\ u \notin Range(clients) /\ clients # <<>>
    /\ ent[u].receiver = "running"
    /\ Ok /\ qm.pc = "idle" /\ qm.by # Receiver(u) /\ dc.by # Receiver(u)
    /\ clients_mutex = NoThread /\ Drained

\* C32: disconnect called with a uid that is not in the client table
\* returns with no effect on the table, the kill queue, connCount, connCrash
\* and the outgoing queues; an entry is pushed on the kill queue only for a
\* uid of the table, and a uid that has left the table never comes back, so
\* of two calls for one uid only the first has an effect.
DisconnectOfAbsentUid ==
  [][/\ \A t \in {Listener} \cup {Receiver(u) : u \in Uids} :
          (CallsDisconnect(t) /\ CallOf(t).uid \notin Range(clients) /\ Disconnect(t))
            => UNCHANGED <<clients, killqueue, connCount, connCrash, outq>>
     /\ \A u \in Uids :
          (u \notin Range(clients) /\ BroadcasterDisconnect(u))
            => UNCHANGED <<clients, killqueue, connCount, connCrash, outq>>
     /\ Len(killqueue') > Len(killqueue)
          => killqueue'[Len(killqueue')] \in Range(clients)
     /\ \A u \in Uids :
          (u \notin Range(clients) /\ ent[u].st # "unused")
            => u \notin Range(clients')]_vars

\* the receiver of a client stands at the call of disconnect for a DELETE
\* frame while the broadcaster of that client has already taken it off the
\* table
SecondDisconnectPending ==
  /\ qm.pc = "disconnect" /\ qm.call.uid \notin Range(clients)
  /\ qm.call.uid \in Range(killqueue) \/ kt.to_del = qm.call.uid
  /\ connCount > 0

\* ------------------------------------------------------------------- kick
\* the lines "!kick <uid> bye!" and "!kick <uid> bad manners"
KickLines ==
  { [text |-> "!kick", buid |-> u, msg |-> m] :
      u \in Uids, m \in { <<"bye!">>, <<"bad", "manners">> } }

\* a moderator and a plain user are admitted, have their flow enabled and
\* send !kick lines, one thread running at a time
NextKick ==
  \/ \E user \in Users : Settled /\ Drained /\ CreateClientBegin(user, MaxClients)
  \/ \E u \in Uids : Settled /\ Drained /\ EnableFlow(u)
  \/ \E u \in Uids, data \in KickLines :
       /\ Settled /\ Drained
       /\ Len(chathistory) < MaxChat
       /\ QueueMessage(u, "MSG2_CHAT", 0, data, NoScript)
  \/ QueueMessageKickCommand
  \/ QueueMessageKick
  \/ QueueMessageChatLog
  \/ StepCore
  \/ HandlersIdle /\ ListenerAccept
  \/ HandlersIdle /\ reply = NoReply /\ KillerPop
  \/ HandlersIdle /\ reply = NoReply /\ KillerStep
  \/ \E u \in Uids : Settled /\ Turn(u) /\ BroadcasterSend(u)

SpecKick == Init /\ [][NextKick]_vars

\* C33: the !kick <uid> <reason> of a moderator or administrator calls
\* disconnect for the client of that uid with the reason
\* "kicked by <nickname of the sender>: <reason>" when the uid is in the
\* table; when it is not, no client is disconnected, the table is unchanged
\* and the refusal of the server is queued on the sender.
KickWithReason ==
  [][(qm.pc = "kick" /\ qm'.pc # "kick" /\ qm.data.text = "!kick")
     => IF qm.data.buid \in Range(clients)
        THEN /\ qm'.pc = "disconnect"
             /\ qm'.call.uid = qm.data.buid
             /\ qm'.call.reason = "kicked by " \o Str(ent[qm.uid].nickname)
                                     \o ": " \o joined(qm.data.msg)
        ELSE /\ clients' = clients /\ killqueue' = killqueue
             /\ qm'.pc # "disconnect"
             /\ outq'[qm.uid] = Append(outq[qm.uid],
                  Frame("MSG2_CHAT", -1, "kick not successful: uid not found!"))]_vars

\* ------------------------------------------------- GlobalConfigManager
\* the keys that are registered; on the command line and in the file there
\* is the key "bogus" as well
ConfigKeys == {"port", "owner"}
\* the number of arguments of one command line
MaxArgs == 2

\* YAML::Node(): a valid node of type Null
NullNode == [valid |-> TRUE, type |-> "Null", scalar |-> ""]
\* YAML::Node(value): a scalar node that holds the text of the value
ScalarNode(s) == [valid |-> TRUE, type |-> "Scalar", scalar |-> s]
\* node[key] in a const member function: an invalid node for a key the map
\* does not hold
at(map, key) ==
  IF key \in DOMAIN map THEN map[key]
  ELSE [valid |-> FALSE, type |-> "Null", scalar |-> ""]

\* std::stol on the texts of the model that are decimal integers throughout
stol == ("0" :> 0) @@ ("1" :> 1) @@ ("7" :> 7) @@ ("9" :> 9) @@ ("8080" :> 8080)

\* ConfigField::parseCliValue: the boolean words first, then an integer, then
\* a float, then the text itself
parseCliValue(value) ==
  IF value \in {"true", "1", "yes", "on"} THEN ScalarNode("true")
  ELSE IF value \in {"false", "0", "no", "off"} THEN ScalarNode("false")
  ELSE IF value \in DOMAIN stol THEN ScalarNode(ToString(stol[value]))
  ELSE IF value \in {"1.5"} THEN ScalarNode(value)
  ELSE ScalarNode(value)

\* the outcomes of a call: an exception, or the value returned
Thrown == [throws |-> TRUE]
Returned(v) == [throws |-> FALSE, val |-> v]

\* Node::as<T>(): an invalid node and a failed conversion throw; of a Null
\* node as<std::string> returns "null" or throws, by the version of the
\* library
as(T, n) ==
  IF ~n.valid THEN {Thrown}
  ELSE IF T = "string"
       THEN IF n.type = "Null" THEN {Returned("null"), Thrown}
            ELSE {Returned(n.scalar)}
  ELSE IF n.type = "Null" THEN {Thrown}
  ELSE IF T = "int"
       THEN IF n.scalar \in DOMAIN stol THEN {Returned(stol[n.scalar])}
            ELSE {Thrown}
  ELSE IF n.scalar \in {"true", "yes", "on", "y"} THEN {Returned(TRUE)}
  ELSE IF n.scalar \in {"false", "no", "off", "n"} THEN {Returned(FALSE)}
  ELSE {Thrown}

\* GlobalConfigManager::get<T>(key): the outcomes of the call; operator bool
\* of a node tells whether it is defined, which every valid node is, also
\* one of type Null
get(T, key) ==
  IF key \notin DOMAIN fields THEN {Thrown}
  ELSE IF at(cli_overrides, key).valid THEN as(T, at(cli_overrides, key))
  ELSE IF at(config_data, key).valid THEN as(T, at(config_data, key))
  ELSE IF fields[key].valid THEN as(T, fields[key])
  ELSE {Thrown}

\* the loop of parseArguments over the arguments --key=value from the i-th
\* on: the override of a registered field is stored, an argument of no field
\* ends the loop
RECURSIVE parseFrom(_, _, _)
parseFrom(overrides, argv, i) ==
  IF i > Len(argv) THEN overrides
  ELSE IF argv[i].key \in DOMAIN fields
       THEN parseFrom((argv[i].key :> parseCliValue(argv[i].value)) @@ overrides,
                      argv, i + 1)
       ELSE overrides

\* the command lines: up to MaxArgs arguments --key=value
Argvs ==
  UNION {[1..n -> [key : ConfigKeys \cup {"bogus"},
                   value : {"1", "7", "on", "x"}]] : n \in 1..MaxArgs}
\* the files: a map from some registered or unknown keys to a number or to
\* the empty value
Files ==
  UNION {[ks -> {ScalarNode("9"), NullNode}] :
           ks \in SUBSET (ConfigKeys \cup {"bogus"})}
Types == {"int", "bool", "string"}

\* GlobalConfigManager::registerField: fields without validators
RegisterField(key, default_value) ==
  /\ fields' = (key :> default_value) @@ fields
  /\ UNCHANGED <<clients, ent, outq, reply, fuid, killqueue, connCount, connCrash,
                 bans, chathistory, clients_mutex, killer_mutex, cc, qm, dc, kt,
                 fault, down, userCache, hb>>
  /\ UNCHANGED <<config_data, cli_overrides, got>>

\* GlobalConfigManager::load
Load(file) ==
  /\ config_data' = file
  /\ UNCHANGED <<clients, ent, outq, reply, fuid, killqueue, connCount, connCrash,
                 bans, chathistory, clients_mutex, killer_mutex, cc, qm, dc, kt,
                 fault, down, userCache, hb>>
  /\ UNCHANGED <<fields, cli_overrides, got>>

\* GlobalConfigManager::parseArguments
ParseArguments(argv) ==
  /\ cli_overrides' = parseFrom(cli_overrides, argv, 1)
  /\ UNCHANGED <<clients, ent, outq, reply, fuid, killqueue, connCount, connCrash,
                 bans, chathistory, clients_mutex, killer_mutex, cc, qm, dc, kt,
                 fault, down, userCache, hb>>
  /\ UNCHANGED <<fields, config_data, got>>

\* a call of GlobalConfigManager::get<T>(key)
Get(T, key) ==
  /\ \E out \in get(T, key) : got' = [T |-> T, key |-> key, out |-> out]
  /\ UNCHANGED <<clients, ent, outq, reply, fuid, killqueue, connCount, connCrash,
                 bans, chathistory, clients_mutex, killer_mutex, cc, qm, dc, kt,
                 fault, down, userCache, hb>>
  /\ UNCHANGED <<fields, config_data, cli_overrides>>

\* the start of the server: the fields are registered without a default,
\* with a number or with a name, then the file is loaded and the command
\* line parsed, then values are read
NextConfig ==
  \/ \E key \in ConfigKeys,
          d \in {NullNode, ScalarNode("8080"), ScalarNode("MyServer")} :
       /\ config_data = <<>> /\ cli_overrides = <<>> /\ got.T = ""
       /\ key \notin DOMAIN fields /\ RegisterField(key, d)
  \/ \E file \in Files :
       /\ config_data = <<>> /\ cli_overrides = <<>> /\ got.T = ""
       /\ Load(file)
  \/ \E argv \in Argvs : cli_overrides = <<>> /\ got.T = "" /\ ParseArguments(argv)
  \/ \E T \in Types, key \in ConfigKeys \cup {"bogus"} : Get(T, key)

SpecConfig == Init /\ [][NextConfig]_vars

\* C34: when the send of WELCOME to a newly admitted client fails,
\* createClient calls disconnect for the uid of that client with the reason
\* "error sending welcome message"; the entry is not in the table when
\* createClient returns, and a USER_JOIN frame is queued only by an admission
\* that has sent WELCOME, for the uid it has admitted.
WelcomeFailureDisconnects ==
  [][LET W == "error sending welcome message"
         joins(q, v) == SelectSeq(q[v], LAMBDA f : f.type = "USER_JOIN")
     IN /\ (cc.pc = "pos" /\ cc'.pc = "call" /\ ~isbanned(cc.user.ip))
             => cc'.call.reason = W /\ reply' = reply
        /\ (cc.pc = "pos" /\ cc'.pc = "join") => reply'.sent = "WELCOME"
        /\ (cc.pc = "call" /\ cc.call.reason = W /\ cc' # cc)
             => cc'.pc = "disconnect" /\ cc'.call.uid = cc.uid
        /\ (cc.pc # "idle" /\ cc.call.reason = W /\ cc'.pc = "idle")
             => cc.uid \notin Range(clients')
        /\ (cc.pc # "idle" /\ cc.call.reason = W)
             => \A v \in Uids : Len(joins(outq', v)) <= Len(joins(outq, v))
        /\ \A v \in Uids :
             Len(joins(outq', v)) > Len(joins(outq, v))
               => /\ cc.pc = "join" /\ reply.sent = "WELCOME"
                  /\ joins(outq', v)[Len(joins(outq', v))].source = cc.uid]_vars

\* createClient has returned after a failed WELCOME: the client is off the
\* table and the client that stays has been told that it left
WelcomeFailed ==
  \E u, v \in Uids :
    /\ cc.pc = "idle" /\ u \notin Range(clients) /\ v \in Range(clients)
    /\ \E i \in 1..Len(outq[v]) :
         /\ outq[v][i].type = "USER_LEAVE" /\ outq[v][i].source = u
         /\ outq[v][i].data = "error sending welcome message"

\* C35: get(key) of a registered key returns the override of the command
\* line when one is set, otherwise the value of the file when the file has
\* one, otherwise the default of the field; it throws for a key that is not
\* registered and for a registered key with no value in any of the three
\* places. A value is expected back where its text reads as the type asked
\* for.
ConfigPriority ==
  [][LET Typed(T, s) ==
           \/ T = "string"
           \/ T = "int" /\ s \in DOMAIN stol
           \/ T = "bool" /\ s \in {"true", "false", "yes", "no", "on", "off"}
         Value(T, s) ==
           IF T = "string" THEN s
           ELSE IF T = "int" THEN stol[s]
           ELSE s \in {"true", "yes", "on"}
     IN /\ \A argv \in Argvs :
             ParseArguments(argv) =>
               \A i \in 1..Len(argv), T \in Types :
                 ( /\ \A j \in 1..i : argv[j].key \in DOMAIN fields
                   /\ \A j \in (i + 1)..Len(argv) : argv[j].key # argv[i].key
                   /\ Typed(T, argv[i].value) )
                   => get(T, argv[i].key)' = {Returned(Value(T, argv[i].value))}
        /\ \A T \in Types, key \in ConfigKeys \cup {"bogus"} :
             Get(T, key) =>
               IF key \notin DOMAIN fields THEN got'.out.throws
               ELSE IF key \in DOMAIN cli_overrides
                    THEN got'.out \in as(T, cli_overrides[key])
               ELSE IF key \in DOMAIN config_data
                    THEN ( /\ config_data[key].type = "Scalar"
                           /\ Typed(T, config_data[key].scalar) )
                           => got'.out = Returned(Value(T, config_data[key].scalar))
               ELSE IF fields[key].type = "Scalar"
                    THEN Typed(T, fields[key].scalar)
                           => got'.out = Returned(Value(T, fields[key].scalar))
               ELSE got'.out.throws]_vars

\* C36: when several threads call disconnect for one uid (the broadcaster of
\* the client on a send error, its receiver dispatching DELETE, the listener
\* after a failed admission), one call removes the entry and pushes it on
\* the kill queue: the entry that leaves the table is the one disconnect was
\* called for, it is in the kill queue once, connCount grows by one with
\* every entry that leaves and not otherwise, the killer thread works on an
\* entry that is live and off the table, and an entry released stays
\* released and is not pushed again.
OneRemovalPerUid ==
  [][/\ (\A u \in Uids :
          (u \in Range(clients) /\ u \notin Range(clients'))
            => /\ dc.pc = "notify" /\ dc.uid = u
               /\ Len(clients') = Len(clients) - 1
               /\ connCount' = connCount + 1
               /\ Len(SelectSeq(killqueue', LAMBDA v : v = u)) = 1)
        /\ (connCount' # connCount => Range(clients') # Range(clients))
        /\ (Len(killqueue') > Len(killqueue)
             => (\E u \in Range(clients) :
                  /\ killqueue' = Append(killqueue, u)
                  /\ u \notin Range(killqueue) /\ kt.to_del # u
                  /\ ent[u].st = "live" /\ dc'.uid = u))
        /\ (kt'.pc # "wait"
             => /\ ent[kt'.to_del].st = "live"
                /\ kt'.to_del \notin Range(clients') \cup Range(killqueue'))
        /\ (\A u \in Uids :
             ent[u].st = "freed" => ent'[u].st = "freed" /\ u \notin Range(killqueue'))
        /\ connCount' = Cardinality({u \in Uids : ent'[u].st # "unused"
                                                  /\ u \notin Range(clients')})]_vars

\* the broadcaster of a client is inside disconnect for it, between the push
\* and the erase, while the receiver of the same client has dispatched its
\* DELETE frame and is about to call disconnect for the same uid
TwoDisconnectsOfOneUid ==
  /\ dc.pc = "notify" /\ dc.by = Broadcaster(dc.uid)
  /\ qm.pc = "disconnect" /\ qm.call.uid = dc.uid /\ qm.by = Receiver(dc.uid)
  /\ dc.uid \in Range(clients) /\ dc.uid \in Range(killqueue)

\* C37: during the dispatch of a CHAT frame the index of the sender computed
\* at the start stays in range and denotes the sender until the dispatch
\* ends, also when the line is a !kick or !ban that removes a client: no
\* access to the table is out of range and the record appended to the chat
\* history carries the uid and the nickname of the sender.
SenderIndexStable ==
  [][/\ fault' = "none"
     /\ (qm'.pc # "idle" /\ qm'.type = "MSG2_CHAT")
          => qm'.pos < Len(clients') /\ clients'[qm'.pos + 1] = qm'.uid
     /\ chathistory' # chathistory
          => /\ chathistory'[Len(chathistory')].source = qm.uid
             /\ chathistory'[Len(chathistory')].nick = ent[qm.uid].nickname]_vars

\* ------------------------------------------------------- getHeartbeatData
\* lines 355 and 390-396: getNumClients takes clients_mutex, reads the size
\* of the table and releases the mutex
GetNumClients ==
  /\ Ok /\ hb.pc = "idle"
  /\ clients_mutex = NoThread
  /\ hb' = [pc |-> "counted", clientnum |-> Len(clients), i |-> 0, lines |-> <<>>]
  /\ UNCHANGED <<clients, ent, outq, reply, fuid, killqueue, connCount, connCrash,
                 bans, chathistory, killer_mutex, cc, qm, dc, kt, fault, down,
                 userCache, fields, config_data, cli_overrides, got>>
  /\ UNCHANGED clients_mutex

\* lines 357-361: clients_mutex is taken again, the challenge, the version
\* and the count are written
GetHeartbeatDataLock ==
  /\ Ok /\ hb.pc = "counted"
  /\ clients_mutex = NoThread
  /\ clients_mutex' = Notifier
  /\ hb' = [hb EXCEPT !.pc = "loop"]
  /\ UNCHANGED <<clients, ent, outq, reply, fuid, killqueue, connCount, connCrash,
                 bans, chathistory, killer_mutex, cc, qm, dc, kt, fault, down,
                 userCache, fields, config_data, cli_overrides, got>>

\* lines 362-387: one line for the client at index i while clientnum > 0 and
\* i < clients.size(), then the return, which leaves the document to the
\* caller
GetHeartbeatDataLine ==
  /\ Ok /\ hb.pc = "loop"
  /\ IF hb.clientnum > 0 /\ hb.i < Len(clients)
     THEN /\ hb' = [hb EXCEPT !.i = hb.i + 1,
                              !.lines = Append(hb.lines,
                                [i |-> hb.i,
                                 nickname |-> ent[clients[hb.i + 1]].nickname])]
          /\ UNCHANGED clients_mutex
     ELSE /\ hb' = [pc |-> "idle", clientnum |-> 0, i |-> 0, lines |-> <<>>]
          /\ clients_mutex' = NoThread
  /\ UNCHANGED <<clients, ent, outq, reply, fuid, killqueue, connCount, connCrash,
                 bans, chathistory, killer_mutex, cc, qm, dc, kt, fault, down,
                 userCache, fields, config_data, cli_overrides, got>>

\* the threads of SpecRace, the listener calling enableFlow for the client
\* it has just admitted, and the notifier asking for the heartbeat document;
\* the broadcasters send what is queued, in the order of their uids, and the
\* killer thread finishes a teardown it has begun, before another thread
\* takes its next step
NextBeat ==
  \/ \E user \in OneUser : Drained /\ kt.pc = "wait" /\ CreateClientBegin(user, MaxRace)
  \/ \E u \in Uids : Drained /\ kt.pc = "wait" /\ BroadcasterDisconnect(u)
  \/ \E u \in Uids :
       /\ Drained /\ kt.pc = "wait"
       /\ QueueMessage(u, "MSG2_DELETE", 0, NoData, NoScript)
  \/ \E u \in Uids :
       /\ Drained /\ kt.pc = "wait"
       /\ reply.sent = "WELCOME" /\ u = fuid - 1 /\ EnableFlow(u)
  \/ Drained /\ kt.pc = "wait" /\ StepCore
  \/ Drained /\ kt.pc = "wait" /\ ListenerAccept
  \/ Drained /\ kt.pc = "wait" /\ KillerPop
  \/ Drained /\ KillerStep
  \/ \E u \in Uids : Turn(u) /\ BroadcasterSend(u)
  \/ Drained /\ kt.pc = "wait" /\ GetNumClients
  \/ Drained /\ kt.pc = "wait" /\ GetHeartbeatDataLock
  \/ Drained /\ kt.pc = "wait" /\ GetHeartbeatDataLine

SpecBeat == Init /\ [][NextBeat]_vars

\* C38: in every heartbeat document the count on the third line equals the
\* number of lines of clients that follow it, also when admissions and
\* disconnects run while the document is made.
HeartbeatCountMatches ==
  [][(hb.pc = "loop" /\ hb'.pc = "idle") => hb.clientnum = Len(hb.lines)]_vars

\* C39: whenever no admission is under way, the slot numbers stored in the
\* entries of the client table are pairwise distinct.
SlotNumbersDistinct ==
  cc.pc = "idle"
    => \A i, j \in 1..Len(clients) :
         i # j => ent[clients[i]].slotnum # ent[clients[j]].slotnum

\* C40: the two mutexes never deadlock. The thread that holds killer_mutex
\* is inside disconnect and waits for nothing; a thread that waits for
\* killer_mutex does not hold it; the notifier holds no mutex while it waits
\* for clients_mutex; the thread that holds clients_mutex is the listener
\* inside createClient, a receiver inside queueMessage or the notifier
\* inside getHeartbeatData, and it can take its next step or waits for
\* killer_mutex only; a thread outside the handlers, which may go on to
\* take a mutex, holds none; no broadcaster ever holds clients_mutex.
NoLockCycle ==
  Ok =>
    /\ killer_mutex # NoThread
         => /\ dc.pc = "notify" /\ dc.by = killer_mutex
            /\ ENABLED DisconnectEnd
    /\ \A t \in {Listener} \cup {Receiver(u) : u \in Uids} :
         CallsDisconnect(t) => killer_mutex # t /\ clients_mutex = t
    /\ hb.pc \in {"idle", "counted"}
         => clients_mutex # Notifier /\ killer_mutex # Notifier
    /\ cc.pc = "idle" => clients_mutex # Listener /\ killer_mutex # Listener
    /\ qm.pc = "idle" => clients_mutex[1] # "R"
    /\ clients_mutex[1] # "B"
    /\ clients_mutex # NoThread
         => \/ /\ clients_mutex = Listener
               /\ \/ cc.pc \in {"disconnect", "in disconnect"}
                  \/ ENABLED (\/ CreateClientAdd
                              \/ \E sendFails \in BOOLEAN : CreateClientPos(sendFails)
                              \/ CreateClientCall
                              \/ CreateClientJoin)
            \/ /\ clients_mutex = qm.by
               /\ \/ qm.pc \in {"disconnect", "in disconnect"}
                  \/ ENABLED (\/ QueueMessagePublish
                              \/ QueueMessageBan
                              \/ QueueMessageKick
                              \/ QueueMessageUnban
                              \/ QueueMessageKickCommand
                              \/ QueueMessageChatLog)
            \/ /\ clients_mutex = Notifier /\ hb.pc = "loop"
               /\ killer_mutex # Notifier
               /\ ENABLED GetHeartbeatDataLine

\* the listener holds clients_mutex inside createClient and waits for
\* killer_mutex, which a broadcaster holds inside disconnect, while the
\* notifier waits for clients_mutex
LockChain ==
  /\ cc.pc = "disconnect" /\ clients_mutex = Listener
  /\ killer_mutex \notin {NoThread, Listener}
  /\ hb.pc = "counted"
====
